---- MODULE Spec2Model ----
(***************************************************************************)
(* State-machine model of plantenergy/GeneralWindFarmComponents.py.        *)
(*                                                                         *)
(* Every OpenMDAO component is a record holding its constructor            *)
(* attributes, its input vector (params), its output vector (unknowns),    *)
(* the value returned by the last linearize call (ret) and the exception   *)
(* the last call ended in (err).  Floating-point numbers are modelled as   *)
(* exact rationals [n |-> numerator, d |-> denominator]; d = 0 stands for  *)
(* the non-finite values numpy produces on a division by zero.             *)
(***************************************************************************)
EXTENDS Integers, Sequences, FiniteSets, TLC

VARIABLES
    aep,        \* the WindFarmAEP component
    config,     \* plantenergy.config: the call counters
    mux,        \* the MUX component
    demux,      \* the DeMUX component
    spacing,    \* the SpacingComp component
    boundary,   \* the BoundaryComp component
    distance,   \* a call of the free function calculate_distance
    cpct,       \* the CPCT_Interpolate_Gradients component
    power,      \* the WindDirectionPower component
    adjust,     \* the AdjustCtCpYaw component
    frame,      \* the WindFrame component
    smooth,     \* the CPCT_Interpolate_Gradients_Smooth component
    hull        \* a call of the free function calculate_boundary

vars == <<aep, config, mux, demux, spacing, boundary, distance, cpct, power, adjust,
          frame, smooth, hull>>

(***************************************************************************)
(* Numbers                                                                 *)
(***************************************************************************)
Abs(x) == IF x < 0 THEN -x ELSE x

RECURSIVE GCD(_, _)
GCD(a, b) == IF b = 0 THEN a ELSE GCD(b, a % b)

\* the float n/d in lowest terms, with a positive denominator
Q(n, d) ==
    IF d = 0 THEN [n |-> IF n > 0 THEN 1 ELSE IF n < 0 THEN -1 ELSE 0, d |-> 0]
    ELSE LET g == GCD(Abs(n), Abs(d))
             s == IF d < 0 THEN -1 ELSE 1
         IN  [n |-> (s * n) \div g, d |-> (s * d) \div g]

QInt(i) == [n |-> i, d |-> 1]
Inf == [n |-> 1, d |-> 0]
NegInf == [n |-> -1, d |-> 0]
NaN == [n |-> 0, d |-> 0]
IsFinite(a) == a.d # 0

QNeg(a) == [n |-> -a.n, d |-> a.d]

\* a + b; the common denominator is the least common multiple
QAdd(a, b) ==
    IF a.d = 0 /\ b.d = 0 THEN (IF a.n = b.n THEN a ELSE NaN)
    ELSE IF a.d = 0 THEN a
    ELSE IF b.d = 0 THEN b
    ELSE LET g == GCD(a.d, b.d)
         IN  Q(a.n * (b.d \div g) + b.n * (a.d \div g), (a.d \div g) * b.d)

QSub(a, b) == QAdd(a, QNeg(b))

\* a * b, cancelling across before multiplying
QMul(a, b) ==
    IF a.d = 0 \/ b.d = 0 THEN Q(a.n * b.n, 0)
    ELSE LET g1 == GCD(Abs(a.n), b.d)
             g2 == GCD(Abs(b.n), a.d)
             h1 == IF g1 = 0 THEN 1 ELSE g1
             h2 == IF g2 = 0 THEN 1 ELSE g2
         IN  Q((a.n \div h1) * (b.n \div h2), (a.d \div h2) * (b.d \div h1))

\* a ** (-1): numpy returns inf for 0. ** (-1)
QInv(a) ==
    IF a.d = 0 THEN (IF a.n = 0 THEN NaN ELSE QInt(0))
    ELSE IF a.n = 0 THEN Inf
    ELSE IF a.n < 0 THEN [n |-> -a.d, d |-> -a.n]
    ELSE [n |-> a.d, d |-> a.n]

QDiv(a, b) ==
    IF b.d # 0 /\ b.n = 0 THEN Q(a.n, 0)
    ELSE QMul(a, QInv(b))

QLt(a, b) == IsFinite(a) /\ IsFinite(b) /\ a.n * b.d < b.n * a.d
QLe(a, b) == IsFinite(a) /\ IsFinite(b) /\ a.n * b.d <= b.n * a.d

\* a ** k for a natural exponent k
RECURSIVE QPow(_, _)
QPow(a, k) == IF k = 0 THEN QInt(1) ELSE QMul(a, QPow(a, k - 1))

\* np.log is kept symbolic: the logarithm of a rational is not a rational
Ln(a) == [ln |-> a]

\* sum of a sequence of rationals, left to right
RECURSIVE QSum(_)
QSum(s) == IF s = <<>> THEN QInt(0)
           ELSE QAdd(QSum(SubSeq(s, 1, Len(s) - 1)), s[Len(s)])

\* elementwise product of two numpy arrays of equal length
VecMul(a, b) == [i \in 1..Len(a) |-> QMul(a[i], b[i])]

\* the sequences of length n over S
SeqN(S, n) == [1..n -> S]

Zeros(n) == [i \in 1..n |-> QInt(0)]

\* what a call returns: nothing (solve_nonlinear, or a call that raised), or
\* the Jacobian dictionary of linearize, a function of (output, input) keys
NoReturn == [returned |-> FALSE]
Returned(J) == [returned |-> TRUE, J |-> J]

(***************************************************************************)
(* Bounds and input values                                                 *)
(***************************************************************************)
MaxDirections == 2
MaxCalls == 2
Ranks == 0..1
\* (power in kW, frequency) of one wind direction
DirectionVals == {[power |-> QInt(100), frequency |-> Q(1, 2)],
                  [power |-> QInt(200), frequency |-> Q(1, 2)],
                  [power |-> QInt(0), frequency |-> Q(1, 4)]}
AEP_methods == {"none", "log", "inverse", "sqrt"}

(***************************************************************************)
(* plantenergy.config: the call counters, one entry per rank               *)
(***************************************************************************)
config_init == [obj_func_calls_array |-> [r \in Ranks |-> 0],
                sens_func_calls_array |-> [r \in Ranks |-> 0]]

(***************************************************************************)
(* WindFarmAEP                                                             *)
(***************************************************************************)
hours == 8760

WindFarmAEP_params == {"dirPowers", "windFrequencies", "gen_params:AEP_method"}
WindFarmAEP_pass_by_obj == {"gen_params:AEP_method"}
WindFarmAEP_unknowns == {"AEP"}

WindFarmAEP_init(nDirections, rec_func_calls, rank) ==
    [nDirections |-> nDirections,
     rec_func_calls |-> rec_func_calls,
     rank |-> rank,
     params |-> [dirPowers |-> Zeros(nDirections),
                 windFrequencies |-> Zeros(nDirections),
                 AEP_method |-> "none"],
     unknowns |-> [AEP |-> QInt(0)],
     ret |-> NoReturn,
     err |-> "none"]

WindFarmAEP_inputs(nDirections) ==
    {[dirPowers |-> [i \in 1..nDirections |-> dirs[i].power],
      windFrequencies |-> [i \in 1..nDirections |-> dirs[i].frequency],
      AEP_method |-> method] :
        dirs \in SeqN(DirectionVals, nDirections), method \in AEP_methods}

\* the sum without the frequency weights
approximate_AEP_unweighted(dirPowers, windFrequencies) ==
    QMul(QSum(dirPowers), QInt(hours))

\* AEP = sum(dirPowers*windFrequencies)*hours
approximate_AEP(dirPowers, windFrequencies) ==
    QMul(QSum(VecMul(dirPowers, windFrequencies)), QInt(hours))

\* the value assigned to unknowns['AEP'], for a recognised AEP_method
promote_AEP(AEP, AEP_method) ==
    CASE AEP_method = "none" -> AEP
      [] AEP_method = "log" -> Ln(AEP)
      [] AEP_method = "inverse" -> QInv(AEP)

AEP_method_valid(AEP_method) == AEP_method \in {"none", "log", "inverse"}

\* config.obj_func_calls_array[rank] += 1, when rec_func_calls
count_obj_call(c, cfg) ==
    IF c.rec_func_calls
    THEN [cfg EXCEPT !.obj_func_calls_array[c.rank] = @ + 1]
    ELSE cfg

\* config.sens_func_calls_array[rank] += 1, when rec_func_calls
count_sens_call(c, cfg) ==
    IF c.rec_func_calls
    THEN [cfg EXCEPT !.sens_func_calls_array[c.rank] = @ + 1]
    ELSE cfg

\* solve_nonlinear with the call counted before AEP_method is looked at
WindFarmAEP_solve_count_first(c, cfg, p) ==
    LET AEP == approximate_AEP(p.dirPowers, p.windFrequencies)
    IN  [comp |-> [c EXCEPT !.params = p,
                            !.unknowns.AEP =
                               IF AEP_method_valid(p.AEP_method)
                               THEN promote_AEP(AEP, p.AEP_method) ELSE @,
                            !.ret = NoReturn,
                            !.err = IF AEP_method_valid(p.AEP_method)
                                    THEN "none" ELSE "ValueError"],
         config |-> count_obj_call(c, cfg)]

\* the component and the counters after solve_nonlinear(params = p)
WindFarmAEP_solve(c, cfg, p) ==
    LET AEP == approximate_AEP(p.dirPowers, p.windFrequencies)
    IN  IF AEP_method_valid(p.AEP_method)
        THEN [comp |-> [c EXCEPT !.params = p,
                                 !.unknowns.AEP = promote_AEP(AEP, p.AEP_method),
                                 !.ret = NoReturn,
                                 !.err = "none"],
              config |-> count_obj_call(c, cfg)]
        ELSE [comp |-> [c EXCEPT !.params = p,
                                 !.ret = NoReturn,
                                 !.err = "ValueError"],
              config |-> cfg]

\* dAEP_dpower with the power of the 'inverse' case not squared
dAEP_dpower_inverse_unsquared(dirPowers, windFrequencies, AEP_method) ==
    LET nDirs == Len(windFrequencies)
    IN  CASE AEP_method = "none" ->
               [i \in 1..nDirs |->
                  QMul(QMul(QInt(1), windFrequencies[i]), QInt(hours))]
          [] AEP_method = "log" ->
               [i \in 1..Len(dirPowers) |-> QInv(dirPowers[i])]
          [] AEP_method = "inverse" ->
               [i \in 1..nDirs |->
                  QNeg(QInv(QMul(QMul(QInt(hours), windFrequencies[i]),
                                 dirPowers[i])))]

\* dAEP_dpower, for a recognised AEP_method
dAEP_dpower(dirPowers, windFrequencies, AEP_method) ==
    LET nDirs == Len(windFrequencies)
    IN  CASE AEP_method = "none" ->
               [i \in 1..nDirs |->
                  QMul(QMul(QInt(1), windFrequencies[i]), QInt(hours))]
          [] AEP_method = "log" ->
               [i \in 1..Len(dirPowers) |-> QInv(dirPowers[i])]
          [] AEP_method = "inverse" ->
               [i \in 1..nDirs |->
                  QNeg(QInv(QMul(QMul(QInt(hours), windFrequencies[i]),
                                 QPow(dirPowers[i], 2))))]

\* the component and the counters after linearize on the params vector
WindFarmAEP_lin(c, cfg) ==
    LET p == c.params IN
    IF AEP_method_valid(p.AEP_method)
    THEN [comp |-> [c EXCEPT
                      !.ret = Returned(<<"AEP", "dirPowers">> :>
                                 <<dAEP_dpower(p.dirPowers, p.windFrequencies,
                                               p.AEP_method)>>),
                      !.err = "none"],
          config |-> count_sens_call(c, cfg)]
    ELSE [comp |-> [c EXCEPT !.ret = NoReturn,
                             !.err = "ValueError"],
          config |-> cfg]

\* the counters of the component's rank stay within the model's bound
CallsBelowBound(c, cfg) ==
    /\ cfg.obj_func_calls_array[c.rank] < MaxCalls
    /\ cfg.sens_func_calls_array[c.rank] < MaxCalls

(***************************************************************************)
(* MUX / DeMUX                                                             *)
(***************************************************************************)
MaxElements == 3
ElementVals == {QInt(0), QInt(1), Q(5, 2)}

\* 'input%i' % i and 'output%i' % i
input_name(i) == "input" \o ToString(i)
output_name(i) == "output" \o ToString(i)

MUX_params(nElements) == {input_name(i) : i \in 0..(nElements - 1)}
MUX_unknowns == {"Array"}

MUX_init(nElements) ==
    [nElements |-> nElements,
     params |-> [name \in MUX_params(nElements) |-> QInt(0)],
     unknowns |-> [Array |-> Zeros(nElements)],
     ret |-> NoReturn,
     err |-> "none"]

\* unknowns['Array'][i] = params['input%i'], for i in range(0, nElements);
\* Array[i] of the code is Array[i + 1] of the sequence
RECURSIVE MUX_assign(_, _, _)
MUX_assign(Array, params, i) ==
    IF i = 0 THEN Array
    ELSE [MUX_assign(Array, params, i - 1) EXCEPT ![(i - 1) + 1] = params[input_name(i - 1)]]

MUX_solve(c, p) ==
    [c EXCEPT !.params = p,
              !.unknowns.Array = MUX_assign(c.unknowns.Array, p, c.nElements),
              !.ret = NoReturn,
              !.err = "none"]

\* the dictionary MUX.linearize builds: dArray_dInput is set to 1 at i, copied
\* into J, and set back to 0
RECURSIVE MUX_J(_, _, _)
MUX_J(nElements, dArray_dInput, i) ==
    IF i = 0 THEN <<>>
    ELSE LET before == MUX_J(nElements, dArray_dInput, i - 1)
             marked == [dArray_dInput EXCEPT ![(i - 1) + 1] = QInt(1)]
         IN  (<<"Array", input_name(i - 1)>> :> marked) @@ before

MUX_lin(c) ==
    [c EXCEPT !.ret = Returned(MUX_J(c.nElements, Zeros(c.nElements), c.nElements)),
              !.err = "none"]

DeMUX_params == {"Array"}
DeMUX_unknowns(nElements) == {output_name(i) : i \in 0..(nElements - 1)}

DeMUX_init(nElements) ==
    [nElements |-> nElements,
     params |-> [Array |-> Zeros(nElements)],
     unknowns |-> [name \in DeMUX_unknowns(nElements) |-> QInt(0)],
     ret |-> NoReturn,
     err |-> "none"]

\* the outputs read from the mirrored position of the array
DeMUX_assign_reversed(unknowns, Array, i) ==
    [name \in DOMAIN unknowns |->
        IF \E k \in 0..(i - 1) : name = output_name(k)
        THEN Array[Len(Array) - (CHOOSE k \in 0..(i - 1) : name = output_name(k))]
        ELSE unknowns[name]]

\* unknowns['output%i'] = params['Array'][i], for i in range(0, nElements)
RECURSIVE DeMUX_assign(_, _, _)
DeMUX_assign(unknowns, Array, i) ==
    IF i = 0 THEN unknowns
    ELSE [DeMUX_assign(unknowns, Array, i - 1) EXCEPT
            ![output_name(i - 1)] = Array[(i - 1) + 1]]

DeMUX_solve(c, p) ==
    [c EXCEPT !.params = p,
              !.unknowns = DeMUX_assign(c.unknowns, p.Array, c.nElements),
              !.ret = NoReturn,
              !.err = "none"]

\* the row before row i of np.eye(nElements), counted cyclically
eye_row_before(n, i) == [k \in 1..n |-> IF k = ((i + n - 2) % n) + 1 THEN QInt(1) ELSE QInt(0)]

\* row i of np.eye(nElements)
eye_row(n, i) == [k \in 1..n |-> IF k = i THEN QInt(1) ELSE QInt(0)]

\* J['output%i', 'Array'] = np.reshape(doutput_dArray[i, :], (1, nElements))
DeMUX_J(nElements) ==
    [key \in {<<output_name(i), "Array">> : i \in 0..(nElements - 1)} |->
        LET i == CHOOSE k \in 0..(nElements - 1) : key[1] = output_name(k)
        IN  <<eye_row(nElements, i + 1)>>]

DeMUX_lin(c) ==
    [c EXCEPT !.ret = Returned(DeMUX_J(c.nElements)), !.err = "none"]

(***************************************************************************)
(* SpacingComp                                                             *)
(***************************************************************************)
MaxTurbines == 3
\* turbine positions (x, y)
PositionVals == {<<QInt(0), QInt(0)>>, <<QInt(3), QInt(4)>>,
                 <<QInt(3), QInt(0)>>, <<QInt(-1), Q(1, 2)>>}

SpacingComp_params == {"turbineX", "turbineY"}
SpacingComp_unknowns == {"wtSeparationSquared"}

\* int((nTurbines-1)*nTurbines/2)
nPairs(nTurbines) == ((nTurbines - 1) * nTurbines) \div 2

SpacingComp_init(nTurbines) ==
    [nTurbines |-> nTurbines,
     params |-> [turbineX |-> Zeros(nTurbines), turbineY |-> Zeros(nTurbines)],
     unknowns |-> [wtSeparationSquared |-> Zeros(nPairs(nTurbines))],
     ret |-> NoReturn,
     err |-> "none"]

SpacingComp_inputs(nTurbines) ==
    {[turbineX |-> [i \in 1..nTurbines |-> pos[i][1]],
      turbineY |-> [i \in 1..nTurbines |-> pos[i][2]]] :
        pos \in SeqN(PositionVals, nTurbines)}

\* the separation with the y difference taken from turbineX
pair_separation_x_twice(turbineX, turbineY, i, j) ==
    QAdd(QPow(QSub(turbineX[j + 1], turbineX[i + 1]), 2),
         QPow(QSub(turbineX[j + 1], turbineX[i + 1]), 2))

\* (turbineX[j]-turbineX[i])**2+(turbineY[j]-turbineY[i])**2, i and j counted
\* from 0 as in the code
pair_separation(turbineX, turbineY, i, j) ==
    QAdd(QPow(QSub(turbineX[j + 1], turbineX[i + 1]), 2),
         QPow(QSub(turbineY[j + 1], turbineY[i + 1]), 2))

\* for i in range(0, nTurbines): for j in range(i+1, nTurbines):
\*     separation_squared[k] = ...; k += 1
RECURSIVE separation_loop(_, _, _, _, _, _)
separation_loop(separation_squared, turbineX, turbineY, i, j, k) ==
    LET nTurbines == Len(turbineX)
    IN  IF i >= nTurbines THEN separation_squared
        ELSE IF j >= nTurbines
             THEN separation_loop(separation_squared, turbineX, turbineY,
                                  i + 1, i + 2, k)
             ELSE separation_loop(
                      [separation_squared EXCEPT
                          ![k + 1] = pair_separation(turbineX, turbineY, i, j)],
                      turbineX, turbineY, i, j + 1, k + 1)

SpacingComp_solve(c, p) ==
    LET nTurbines == Len(p.turbineX)
    IN  [c EXCEPT !.params = p,
                  !.unknowns.wtSeparationSquared =
                      separation_loop(Zeros(nPairs(nTurbines)),
                                      p.turbineX, p.turbineY, 0, 1, 0),
                  !.ret = NoReturn,
                  !.err = "none"]

\* np.zeros((rows, cols)) as a sequence of rows
ZeroMatrix(rows, cols) == [r \in 1..rows |-> Zeros(cols)]

\* 2*(v[j]-v[i])
twice_delta(v, i, j) == QMul(QInt(2), QSub(v[j + 1], v[i + 1]))

\* the four assignments to row k of dS for the pair (i, j)
dS_pair_without_i(dS, turbineX, turbineY, i, j, k) ==
    LET nTurbines == Len(turbineX)
    IN  [dS EXCEPT ![k + 1][j + 1] = twice_delta(turbineX, i, j),
                   ![k + 1][(j + nTurbines) + 1] = twice_delta(turbineY, i, j)]

dS_pair(dS, turbineX, turbineY, i, j, k) ==
    LET nTurbines == Len(turbineX)
    IN  [dS EXCEPT ![k + 1][j + 1] = twice_delta(turbineX, i, j),
                   ![k + 1][i + 1] = QNeg(twice_delta(turbineX, i, j)),
                   ![k + 1][(j + nTurbines) + 1] = twice_delta(turbineY, i, j),
                   ![k + 1][(i + nTurbines) + 1] = QNeg(twice_delta(turbineY, i, j))]

RECURSIVE dS_loop(_, _, _, _, _, _)
dS_loop(dS, turbineX, turbineY, i, j, k) ==
    LET nTurbines == Len(turbineX)
    IN  IF i >= nTurbines THEN dS
        ELSE IF j >= nTurbines
             THEN dS_loop(dS, turbineX, turbineY, i + 1, i + 2, k)
             ELSE dS_loop(dS_pair(dS, turbineX, turbineY, i, j, k),
                          turbineX, turbineY, i, j + 1, k + 1)

\* dS[:, from:to] with the columns counted from 0, to excluded
Columns(dS, from, to) == [r \in 1..Len(dS) |-> SubSeq(dS[r], from + 1, to)]

SpacingComp_lin(c) ==
    LET turbineX == c.params.turbineX
        turbineY == c.params.turbineY
        nTurbines == Len(turbineX)
        dS == dS_loop(ZeroMatrix(nPairs(nTurbines), 2 * nTurbines),
                      turbineX, turbineY, 0, 1, 0)
    IN  [c EXCEPT
           !.ret = Returned(
               (<<"wtSeparationSquared", "turbineX">> :> Columns(dS, 0, nTurbines))
            @@ (<<"wtSeparationSquared", "turbineY">> :>
                   Columns(dS, nTurbines, 2 * nTurbines))),
           !.err = "none"]

(***************************************************************************)
(* calculate_distance                                                      *)
(***************************************************************************)
MaxVertices == 4
MaxPoints == 2
MaxBoundaryTurbines == 2

\* np.vdot of two vectors of the plane, and a scalar times a vector
vdot(a, b) == QAdd(QMul(a[1], b[1]), QMul(a[2], b[2]))
scale(x, a) == <<QMul(x, a[1]), QMul(x, a[2])>>

\* the face distance with pa taken from the vertex to the point
face_distance_entry_from_vertex(point, vertex, unit_normal) ==
    LET pa == <<QSub(point[1], vertex[1]), QSub(point[2], vertex[2])>>
        d_vec == scale(vdot(pa, unit_normal), unit_normal)
    IN  vdot(d_vec, unit_normal)

\* pa = vertices[j] - points[i]; d_vec = np.vdot(pa, unit_normals[j])*unit_normals[j];
\* face_distance[i, j] = np.vdot(d_vec, unit_normals[j])
face_distance_entry(point, vertex, unit_normal) ==
    LET pa == <<QSub(vertex[1], point[1]), QSub(vertex[2], point[2])>>
        d_vec == scale(vdot(pa, unit_normal), unit_normal)
    IN  vdot(d_vec, unit_normal)

\* the test with > in place of >=
all_positive(row) == \A j \in 1..Len(row) : QLt(QInt(0), row[j])

\* np.all(face_distance[i] >= 0)
all_nonnegative(row) == \A j \in 1..Len(row) : QLe(QInt(0), row[j])

\* the call raises IndexError at unit_normals[j] when a point is looked at
\* and the normals run out before the vertices; otherwise it returns
\* face_distance, with the array inside when return_bool is set
calculate_distance(points, vertices, unit_normals, return_bool) ==
    LET nPoints == Len(points)
        nVertices == Len(vertices)
        face_distance ==
            [i \in 1..nPoints |->
                [j \in 1..nVertices |->
                    face_distance_entry(points[i], vertices[j], unit_normals[j])]]
        inside ==
            [i \in 1..nPoints |->
                IF all_nonnegative(face_distance[i]) THEN QInt(1) ELSE QInt(0)]
    IN  IF nPoints > 0 /\ Len(unit_normals) < nVertices
        THEN [raised |-> "IndexError"]
        ELSE IF ~return_bool
             THEN [raised |-> "none", value |-> face_distance]
             ELSE [raised |-> "none", value |-> <<face_distance, inside>>]

\* convex polygons, counter-clockwise, with the outward unit normal of the
\* face that starts at each vertex; every normal is rational
Polygon(nVertices) ==
    CASE nVertices = 1 ->
           [vertices |-> << <<QInt(0), QInt(0)>> >>,
            normals |-> << <<QInt(0), QInt(-1)>> >>]
      [] nVertices = 2 ->
           [vertices |-> << <<QInt(0), QInt(0)>>, <<QInt(4), QInt(0)>> >>,
            normals |-> << <<QInt(0), QInt(-1)>>, <<QInt(0), QInt(1)>> >>]
      [] nVertices = 3 ->
           [vertices |-> << <<QInt(0), QInt(0)>>, <<QInt(4), QInt(0)>>,
                            <<QInt(0), QInt(3)>> >>,
            normals |-> << <<QInt(0), QInt(-1)>>, <<Q(3, 5), Q(4, 5)>>,
                           <<QInt(-1), QInt(0)>> >>]
      [] nVertices = 4 ->
           [vertices |-> << <<QInt(0), QInt(0)>>, <<QInt(4), QInt(0)>>,
                            <<QInt(4), QInt(3)>>, <<QInt(0), QInt(3)>> >>,
            normals |-> << <<QInt(0), QInt(-1)>>, <<QInt(1), QInt(0)>>,
                           <<QInt(0), QInt(1)>>, <<QInt(-1), QInt(0)>> >>]
      [] OTHER ->
           [vertices |-> [j \in 1..nVertices |->
                            IF j = 1 THEN <<QInt(0), QInt(0)>>
                            ELSE IF j = 2 THEN <<QInt(4), QInt(0)>>
                            ELSE IF j = 3 THEN <<QInt(7), QInt(4)>>
                            ELSE IF j = 4 THEN <<QInt(3), QInt(7)>>
                            ELSE <<QInt(0), QInt(3)>>],
            normals |-> [j \in 1..nVertices |->
                            IF j = 1 THEN <<QInt(0), QInt(-1)>>
                            ELSE IF j = 2 THEN <<Q(4, 5), Q(-3, 5)>>
                            ELSE IF j = 3 THEN <<Q(3, 5), Q(4, 5)>>
                            ELSE IF j = 4 THEN <<Q(-4, 5), Q(3, 5)>>
                            ELSE <<QInt(-1), QInt(0)>>]]

\* the normal lists handed in with the vertices of Polygon(nVertices): one
\* normal per vertex, one normal short, one normal too many
NormalLists(nVertices) ==
    LET normals == Polygon(nVertices).normals
    IN  {normals,
         SubSeq(normals, 1, nVertices - 1),
         Append(normals, <<QInt(1), QInt(0)>>)}

\* points tested against the polygons: inside, on a vertex, outside
PointVals == {<<QInt(1), QInt(1)>>, <<QInt(0), QInt(0)>>,
              <<QInt(5), QInt(1)>>, <<QInt(2), Q(1, 2)>>}

distance_init == [called |-> FALSE]

(***************************************************************************)
(* BoundaryComp                                                            *)
(***************************************************************************)
BoundaryComp_params(type) ==
    IF type = "polygon"
    THEN {"boundaryVertices", "boundaryNormals", "turbineX", "turbineY"}
    ELSE {"boundary_radius", "boundary_center", "turbineX", "turbineY"}
BoundaryComp_pass_by_obj ==
    {"boundaryVertices", "boundaryNormals", "boundary_radius", "boundary_center"}
BoundaryComp_unknowns == {"boundaryDistances"}

\* before the constructor has run
BoundaryComp_none ==
    [constructed |-> FALSE, nTurbines |-> 0, nVertices |-> 0, type |-> "unset",
     params |-> <<>>, unknowns |-> <<>>, ret |-> NoReturn, err |-> "none"]

\* BoundaryComp.__init__: for nVertices < 1 the ValueError of line 742 is
\* built and dropped, and the read of the local name type at line 744, which
\* no branch has assigned, raises UnboundLocalError
BoundaryComp_init(nTurbines, nVertices) ==
    IF nVertices > 1
    THEN [constructed |-> TRUE, nTurbines |-> nTurbines, nVertices |-> nVertices,
          type |-> "polygon",
          params |-> [boundaryVertices |-> ZeroMatrix(nVertices, 2),
                      boundaryNormals |-> ZeroMatrix(nVertices, 2),
                      turbineX |-> Zeros(nTurbines),
                      turbineY |-> Zeros(nTurbines)],
          unknowns |-> [boundaryDistances |-> ZeroMatrix(nTurbines, nVertices)],
          ret |-> NoReturn, err |-> "none"]
    ELSE IF nVertices = 1
    THEN [constructed |-> TRUE, nTurbines |-> nTurbines, nVertices |-> nVertices,
          type |-> "circle",
          params |-> [boundary_radius |-> QInt(1000),
                      boundary_center |-> <<QInt(0), QInt(0)>>,
                      turbineX |-> Zeros(nTurbines),
                      turbineY |-> Zeros(nTurbines)],
          unknowns |-> [boundaryDistances |-> ZeroMatrix(nTurbines, nVertices)],
          ret |-> NoReturn, err |-> "none"]
    ELSE [BoundaryComp_none EXCEPT
             !.nTurbines = nTurbines, !.nVertices = nVertices,
             !.err = "UnboundLocalError"]

\* positions of turbines around the circular boundaries
CirclePointVals == {<<QInt(10), QInt(0)>>, <<QInt(0), QInt(0)>>,
                    <<QInt(20), QInt(0)>>, <<QInt(1), QInt(-2)>>}
CircleVals == {[boundary_radius |-> QInt(10), boundary_center |-> <<QInt(0), QInt(0)>>],
               [boundary_radius |-> QInt(3), boundary_center |-> <<QInt(1), QInt(1)>>]}

BoundaryComp_inputs(c) ==
    IF c.type = "polygon"
    THEN {[boundaryVertices |-> Polygon(c.nVertices).vertices,
           boundaryNormals |-> normals,
           turbineX |-> [i \in 1..c.nTurbines |-> pos[i][1]],
           turbineY |-> [i \in 1..c.nTurbines |-> pos[i][2]]] :
             normals \in NormalLists(c.nVertices),
             pos \in SeqN(PointVals, c.nTurbines)}
    ELSE {[boundary_radius |-> circle.boundary_radius,
           boundary_center |-> circle.boundary_center,
           turbineX |-> [i \in 1..c.nTurbines |-> pos[i][1]],
           turbineY |-> [i \in 1..c.nTurbines |-> pos[i][2]]] :
             circle \in CircleVals,
             pos \in SeqN(CirclePointVals, c.nTurbines)}

\* the circle distance with the radius not squared
circle_distances_radius_unsquared(p) ==
    LET xc == p.boundary_center[1]
        yc == p.boundary_center[2]
        r == p.boundary_radius
    IN  [i \in 1..Len(p.turbineX) |->
            QSub(r, QAdd(QPow(QSub(p.turbineX[i], xc), 2),
                         QPow(QSub(p.turbineY[i], yc), 2)))]

\* r**2 - (np.power((turbineX - xc), 2) + np.power((turbineY - yc), 2))
circle_distances(p) ==
    LET xc == p.boundary_center[1]
        yc == p.boundary_center[2]
        r == p.boundary_radius
    IN  [i \in 1..Len(p.turbineX) |->
            QSub(QPow(r, 2), QAdd(QPow(QSub(p.turbineX[i], xc), 2),
                                  QPow(QSub(p.turbineY[i], yc), 2)))]

\* solve_nonlinear: a type that is neither 'polygon' nor 'circle' builds a
\* ValueError without raising it, and the call returns with nothing assigned
BoundaryComp_solve(c, p) ==
    IF c.type = "polygon"
    THEN LET locations == [i \in 1..c.nTurbines |-> <<p.turbineX[i], p.turbineY[i]>>]
             r == calculate_distance(locations, p.boundaryVertices,
                                     p.boundaryNormals, FALSE)
         IN  IF r.raised = "none"
             THEN [c EXCEPT !.params = p, !.unknowns.boundaryDistances = r.value,
                            !.ret = NoReturn, !.err = "none"]
             ELSE [c EXCEPT !.params = p, !.ret = NoReturn, !.err = r.raised]
    ELSE IF c.type = "circle"
    THEN [c EXCEPT !.params = p, !.unknowns.boundaryDistances = circle_distances(p),
                   !.ret = NoReturn, !.err = "none"]
    ELSE [c EXCEPT !.params = p, !.ret = NoReturn, !.err = "none"]

\* dfaceDistance_dx and dfaceDistance_dy of the polygon: row i*nVertices + j,
\* column i, from the normal of face j
polygon_derivative(c, unit_normals, dpa) ==
    [row \in 1..(c.nTurbines * c.nVertices) |->
        [col \in 1..c.nTurbines |->
            LET i == (row - 1) \div c.nVertices
                j == (row - 1) % c.nVertices
            IN  IF col = i + 1
                THEN vdot(scale(vdot(dpa, unit_normals[j + 1]), unit_normals[j + 1]),
                          unit_normals[j + 1])
                ELSE QInt(0)]]

\* A*B with A = np.eye(nTurbines) and B a vector: B on the diagonal
diagonal(B) == [r \in 1..Len(B) |-> [col \in 1..Len(B) |->
                   IF r = col THEN QMul(QInt(1), B[col]) ELSE QMul(QInt(0), B[col])]]

BoundaryComp_J(dfaceDistance_dx, dfaceDistance_dy) ==
    (<<"boundaryDistances", "turbineX">> :> dfaceDistance_dx)
 @@ (<<"boundaryDistances", "turbineY">> :> dfaceDistance_dy)

\* linearize: with a type that is neither 'polygon' nor 'circle' the
\* ValueError is built and dropped and the read of dfaceDistance_dx at line
\* 843 raises UnboundLocalError
BoundaryComp_lin(c) ==
    LET p == c.params IN
    IF c.type = "polygon"
    THEN IF c.nTurbines > 0 /\ Len(p.boundaryNormals) < c.nVertices
         THEN [c EXCEPT !.ret = NoReturn, !.err = "IndexError"]
         ELSE [c EXCEPT
                 !.ret = Returned(BoundaryComp_J(
                     polygon_derivative(c, p.boundaryNormals, <<QInt(-1), QInt(0)>>),
                     polygon_derivative(c, p.boundaryNormals, <<QInt(0), QInt(-1)>>))),
                 !.err = "none"]
    ELSE IF c.type = "circle"
    THEN [c EXCEPT
            !.ret = Returned(BoundaryComp_J(
                diagonal([i \in 1..c.nTurbines |->
                            QMul(QInt(-2), QSub(p.turbineX[i], p.boundary_center[1]))]),
                diagonal([i \in 1..c.nTurbines |->
                            QMul(QInt(-2), QSub(p.turbineY[i], p.boundary_center[2]))]))),
            !.err = "none"]
    ELSE [c EXCEPT !.ret = NoReturn, !.err = "UnboundLocalError"]

(***************************************************************************)
(* Angles and powers: the cosine of the yaw angles used, and real          *)
(* exponents of the bases they occur with                                  *)
(***************************************************************************)
\* np.cos(yaw*np.pi/180.0) for a yaw in degrees
cos_deg(yaw) ==
    CASE yaw = QInt(0) -> QInt(1)
      [] yaw = QInt(60) -> Q(1, 2)
      [] yaw = QInt(-60) -> Q(1, 2)

\* base ** exponent for a rational exponent: 1 ** e is 1, and a natural
\* exponent is a repeated product
pow(base, exponent) ==
    CASE base = QInt(1) -> QInt(1)
      [] base # QInt(1) /\ exponent.d = 1 /\ exponent.n >= 0 -> QPow(base, exponent.n)

Min(a, b) == IF QLe(a, b) THEN a ELSE b
Max(a, b) == IF QLe(a, b) THEN b ELSE a

\* np.interp(x, xp, fp) for increasing xp: fp[0] at and below xp[0], fp[-1] at
\* and above xp[-1], the chord between the neighbouring points otherwise
interp(x, xp, fp) ==
    IF QLe(x, xp[1]) THEN fp[1]
    ELSE IF QLe(xp[Len(xp)], x) THEN fp[Len(fp)]
    ELSE LET j == CHOOSE k \in 1..(Len(xp) - 1) : QLe(xp[k], x) /\ QLt(x, xp[k + 1])
             slope == QDiv(QSub(fp[j + 1], fp[j]), QSub(xp[j + 1], xp[j]))
         IN  QAdd(QMul(slope, QSub(x, xp[j])), fp[j])

(***************************************************************************)
(* CPCT_Interpolate_Gradients                                              *)
(***************************************************************************)
MaxCPCTTurbines == 2

CPCT_params == {"yaw", "wtVelocity", "gen_params:pP",
                "gen_params:windSpeedToCPCT_wind_speed",
                "gen_params:windSpeedToCPCT_CP", "gen_params:windSpeedToCPCT_CT"}
CPCT_pass_by_obj == {"gen_params:pP", "gen_params:windSpeedToCPCT_wind_speed",
                     "gen_params:windSpeedToCPCT_CP", "gen_params:windSpeedToCPCT_CT"}
CPCT_unknowns == {"Cp_out", "Ct_out"}

pP_default == Q(47, 25)

CPCT_init(nTurbines, datasize) ==
    [nTurbines |-> nTurbines,
     datasize |-> datasize,
     params |-> [yaw |-> Zeros(nTurbines),
                 wtVelocity |-> Zeros(nTurbines),
                 pP |-> pP_default,
                 windSpeedToCPCT_wind_speed |-> Zeros(datasize),
                 windSpeedToCPCT_CP |-> Zeros(datasize),
                 windSpeedToCPCT_CT |-> Zeros(datasize)],
     unknowns |-> [Cp_out |-> Zeros(nTurbines), Ct_out |-> Zeros(nTurbines)],
     ret |-> NoReturn,
     err |-> "none"]

\* coefficient curves: wind speeds (m/s), Cp and Ct at them
CurveVals ==
    {[wind_speed |-> <<QInt(4), QInt(8), QInt(12)>>,
      CP |-> <<Q(1, 5), Q(2, 5), Q(3, 10)>>,
      CT |-> <<Q(4, 5), Q(3, 5), Q(1, 5)>>],
     [wind_speed |-> <<QInt(3), QInt(9)>>,
      CP |-> <<Q(1, 10), Q(2, 5)>>,
      CT |-> <<Q(7, 10), Q(1, 2)>>],
     [wind_speed |-> <<>>, CP |-> <<>>, CT |-> <<>>]}

\* (yaw in degrees, hub wind speed in m/s) of one turbine; a yawed turbine
\* occurs with the exponent pP = 3 only
TurbineFlowVals ==
    {<<yaw, v>> : yaw \in {QInt(0), QInt(60)},
                  v \in {QInt(2), QInt(6), QInt(10), QInt(16)}}

CPCT_inputs(c) ==
    {[yaw |-> [i \in 1..c.nTurbines |-> flow[i][1]],
      wtVelocity |-> [i \in 1..c.nTurbines |-> flow[i][2]],
      pP |-> pP,
      windSpeedToCPCT_wind_speed |-> curve.wind_speed,
      windSpeedToCPCT_CP |-> curve.CP,
      windSpeedToCPCT_CT |-> curve.CT] :
        flow \in SeqN(TurbineFlowVals, c.nTurbines),
        pP \in {QInt(3)},
        curve \in {cv \in CurveVals : Len(cv.wind_speed) = c.datasize}}
    \cup
    {[yaw |-> Zeros(c.nTurbines),
      wtVelocity |-> wtVelocity,
      pP |-> pP_default,
      windSpeedToCPCT_wind_speed |-> curve.wind_speed,
      windSpeedToCPCT_CP |-> curve.CP,
      windSpeedToCPCT_CT |-> curve.CT] :
        wtVelocity \in SeqN({QInt(2), QInt(10), QInt(16)}, c.nTurbines),
        curve \in {cv \in CurveVals : Len(cv.wind_speed) = c.datasize}}

\* the clamp with the two ends of the table exchanged
clamp_to_table_ends_swapped(wind_speed_ax, wind_speed) ==
    Min(Max(wind_speed_ax, wind_speed[Len(wind_speed)]), wind_speed[1])

\* np.minimum(np.maximum(wind_speed_ax, wind_speed[0]), wind_speed[-1])
clamp_to_table(wind_speed_ax, wind_speed) ==
    Min(Max(wind_speed_ax, wind_speed[1]), wind_speed[Len(wind_speed)])

\* wind_speed_ax of one turbine before the clamp
axial_wind_speed(yaw, pP, wtVelocity) ==
    QMul(pow(cos_deg(yaw), QDiv(pP, QInt(3))), wtVelocity)

\* Cp of one turbine at yaw and hub wind speed v: the table value at the
\* clamped axial wind speed, times cos(yaw)**pP
Cp_at(p, yaw, v) ==
    QMul(interp(clamp_to_table(axial_wind_speed(yaw, p.pP, v), p.windSpeedToCPCT_wind_speed),
                p.windSpeedToCPCT_wind_speed, p.windSpeedToCPCT_CP),
         pow(cos_deg(yaw), p.pP))

\* Ct likewise, times cos(yaw)**2
Ct_at(p, yaw, v) ==
    QMul(interp(clamp_to_table(axial_wind_speed(yaw, p.pP, v), p.windSpeedToCPCT_wind_speed),
                p.windSpeedToCPCT_wind_speed, p.windSpeedToCPCT_CT),
         QPow(cos_deg(yaw), 2))

\* solve_nonlinear: windSpeedToCPCT_wind_speed[0] of an empty table raises
\* IndexError
CPCT_solve(c, p) ==
    IF Len(p.windSpeedToCPCT_wind_speed) = 0
    THEN [c EXCEPT !.params = p, !.ret = NoReturn, !.err = "IndexError"]
    ELSE [c EXCEPT
            !.params = p,
            !.unknowns.Cp_out =
                [i \in 1..c.nTurbines |-> Cp_at(p, p.yaw[i], p.wtVelocity[i])],
            !.unknowns.Ct_out =
                [i \in 1..c.nTurbines |-> Ct_at(p, p.yaw[i], p.wtVelocity[i])],
            !.ret = NoReturn,
            !.err = "none"]

\* h = 1e-6
h == Q(1, 1000000)

\* np.eye(nTurbines)*d for a vector d
eye_times(d) == [r \in 1..Len(d) |-> [col \in 1..Len(d) |->
                    IF r = col THEN d[col] ELSE QInt(0)]]

\* (CP_high_wind - CP_low_wind)/(2.0*h) and (CT_high_wind - CT_low_wind)/(2.0*h)
dCP_dwind(p, i) ==
    QDiv(QSub(Cp_at(p, p.yaw[i], QAdd(p.wtVelocity[i], h)),
              Cp_at(p, p.yaw[i], QSub(p.wtVelocity[i], h))),
         QMul(QInt(2), h))

dCT_dwind(p, i) ==
    QDiv(QSub(Ct_at(p, p.yaw[i], QAdd(p.wtVelocity[i], h)),
              Ct_at(p, p.yaw[i], QSub(p.wtVelocity[i], h))),
         QMul(QInt(2), h))

\* (CP_high_yaw - CP_low_yaw)/(2.0*h) and the same for CT: the cosine of
\* yaw +- h degrees is no rational number, so the quotient is kept as the
\* term that names it
yaw_difference(out, p, i) ==
    [difference_of |-> out, wrt |-> "yaw", yaw |-> p.yaw[i],
     wtVelocity |-> p.wtVelocity[i], pP |-> p.pP]

CPCT_lin(c) ==
    LET p == c.params
        n == c.nTurbines
    IN  IF Len(p.windSpeedToCPCT_wind_speed) = 0
        THEN [c EXCEPT !.ret = NoReturn, !.err = "IndexError"]
        ELSE [c EXCEPT
                !.ret = Returned(
                    (<<"Cp_out", "yaw">> :>
                        eye_times([i \in 1..n |-> yaw_difference("Cp_out", p, i)]))
                 @@ (<<"Cp_out", "wtVelocity">> :> eye_times([i \in 1..n |-> dCP_dwind(p, i)]))
                 @@ (<<"Ct_out", "yaw">> :>
                        eye_times([i \in 1..n |-> yaw_difference("Ct_out", p, i)]))
                 @@ (<<"Ct_out", "wtVelocity">> :> eye_times([i \in 1..n |-> dCT_dwind(p, i)]))),
                !.err = "none"]

(***************************************************************************)
(* Numbers r + p*pi: the rotor area 0.25*pi*D^2 brings pi into every power *)
(* of the coefficient mode, and the rated power it is compared with is     *)
(* rational                                                                *)
(***************************************************************************)
Rat(q) == [r |-> q, p |-> QInt(0)]
Pi(q) == [r |-> QInt(0), p |-> q]
RAdd(x, y) == [r |-> QAdd(x.r, y.r), p |-> QAdd(x.p, y.p)]
RSub(x, y) == [r |-> QSub(x.r, y.r), p |-> QSub(x.p, y.p)]

\* 333/106 < pi < 355/113
PiLow == Q(333, 106)
PiHigh == Q(355, 113)

\* x >= y, decided by the two bounds of pi
RGe(x, y) ==
    LET a == QSub(x.r, y.r)
        b == QSub(x.p, y.p)
        t == QNeg(QDiv(a, b))
    IN  CASE b.n = 0 -> QLe(QInt(0), a)
          [] b.n > 0 /\ QLe(t, PiLow) -> TRUE
          [] b.n > 0 /\ QLe(PiHigh, t) -> FALSE
          [] b.n < 0 /\ QLe(PiHigh, t) -> TRUE
          [] b.n < 0 /\ QLe(t, PiLow) -> FALSE

RECURSIVE RSum(_)
RSum(s) == IF s = <<>> THEN Rat(QInt(0))
           ELSE RAdd(RSum(SubSeq(s, 1, Len(s) - 1)), s[Len(s)])

\* np.eye(n)*d for a vector d of such numbers: d on the diagonal
RDiag(d) == [r \in 1..Len(d) |-> [col \in 1..Len(d) |->
                IF r = col THEN d[col] ELSE Rat(QInt(0))]]

\* np.zeros([rows, cols])
RZeros(rows, cols) == [r \in 1..rows |-> [col \in 1..cols |-> Rat(QInt(0))]]

(***************************************************************************)
(* WindDirectionPower                                                      *)
(***************************************************************************)
MaxPowerTurbines == 2

WindDirectionPower_params(direction_id) ==
    {"air_density", "rotorDiameter", "Cp", "generatorEfficiency",
     "wtVelocity" \o ToString(direction_id),
     "rated_power", "cut_in_speed", "cp_curve_cp", "cp_curve_wind_speed",
     "use_power_curve_definition", "rated_wind_speed", "cut_out_speed"}
WindDirectionPower_pass_by_obj ==
    {"rated_power", "cut_in_speed", "cp_curve_cp", "cp_curve_wind_speed",
     "use_power_curve_definition", "rated_wind_speed", "cut_out_speed"}
WindDirectionPower_unknowns(direction_id) ==
    {"wtPower" \o ToString(direction_id), "dir_power" \o ToString(direction_id)}

\* cp_curve_spline: None, or a spline object; the spline used is the straight
\* line c0 + c1*v, whose derivative() is the constant c1
None == [none |-> TRUE]
SplineVals == {None, [none |-> FALSE, c0 |-> Q(1, 10), c1 |-> Q(1, 40)]}
spline_call(spline, v) == QAdd(spline.c0, QMul(spline.c1, v))
spline_derivative(spline, v) == spline.c1

CpPointVals == {1, 3}

\* the default of 'Cp': (0.7737/0.944)*4.0*1.0/3.0*(1 - 1.0/3.0)^2
Cp_default == Q(2579, 5310)

WindDirectionPower_defaults(nTurbines, cp_points) ==
    [air_density |-> Q(2929, 2500),
     rotorDiameter |-> [i \in 1..nTurbines |-> Q(632, 5)],
     Cp |-> [i \in 1..nTurbines |-> Cp_default],
     generatorEfficiency |-> [i \in 1..nTurbines |-> Q(118, 125)],
     wtVelocity |-> Zeros(nTurbines),
     rated_power |-> [i \in 1..nTurbines |-> QInt(5000)],
     cut_in_speed |-> [i \in 1..nTurbines |-> QInt(3)],
     cp_curve_cp |-> Zeros(cp_points),
     cp_curve_wind_speed |-> [i \in 1..cp_points |-> QInt(1)],
     use_power_curve_definition |-> FALSE,
     rated_wind_speed |-> [i \in 1..nTurbines |-> Q(57, 5)],
     cut_out_speed |-> [i \in 1..nTurbines |-> QInt(25)]]

\* params_given keeps the values the caller handed to the last call
WindDirectionPower_init(nTurbines, use_rotor_components, cp_points, cp_curve_spline) ==
    [nTurbines |-> nTurbines,
     direction_id |-> 0,
     use_rotor_components |-> use_rotor_components,
     cp_points |-> cp_points,
     cp_curve_spline |-> cp_curve_spline,
     params |-> WindDirectionPower_defaults(nTurbines, cp_points),
     params_given |-> WindDirectionPower_defaults(nTurbines, cp_points),
     unknowns |-> [wtPower |-> [i \in 1..nTurbines |-> Rat(QInt(0))],
                   dir_power |-> Rat(QInt(0))],
     solved |-> FALSE,
     ret |-> NoReturn,
     err |-> "none"]

\* (hub wind speed in m/s, Cp) of one turbine: below cut-in, at cut-in, on the
\* ramp, at the rated wind speed, at the cut-out speed, and a negative Cp
TurbineVals ==
    {<<QInt(2), Q(2, 5)>>, <<QInt(3), Q(2, 5)>>, <<QInt(8), Q(1, 2)>>,
     <<QInt(12), Q(2, 5)>>, <<QInt(25), Q(2, 5)>>, <<QInt(8), Q(-1, 10)>>}

\* rated wind speeds of the power-curve mode, the only reader of them: above
\* the cut-in speed of 3 m/s, equal to it, below it
RatedSpeedVals == {QInt(12), QInt(3), QInt(2)}

\* the Cp curve of cp_points points
CpCurve(cp_points) ==
    IF cp_points = 3
    THEN [wind_speed |-> <<QInt(4), QInt(8), QInt(12)>>,
          cp |-> <<Q(1, 5), Q(2, 5), Q(3, 10)>>]
    ELSE [wind_speed |-> [i \in 1..cp_points |-> QInt(1)], cp |-> Zeros(cp_points)]

WindDirectionPower_inputs(c) ==
    {[air_density |-> Q(6, 5),
      rotorDiameter |-> [i \in 1..c.nTurbines |-> QInt(100)],
      Cp |-> [i \in 1..c.nTurbines |-> turbine[i][2]],
      generatorEfficiency |-> [i \in 1..c.nTurbines |-> Q(9, 10)],
      wtVelocity |-> [i \in 1..c.nTurbines |-> turbine[i][1]],
      rated_power |-> [i \in 1..c.nTurbines |-> QInt(5000)],
      cut_in_speed |-> [i \in 1..c.nTurbines |-> QInt(3)],
      cp_curve_cp |-> CpCurve(c.cp_points).cp,
      cp_curve_wind_speed |-> CpCurve(c.cp_points).wind_speed,
      use_power_curve_definition |-> mode[1],
      rated_wind_speed |-> [i \in 1..c.nTurbines |-> mode[2]],
      cut_out_speed |-> [i \in 1..c.nTurbines |-> QInt(25)]] :
        turbine \in SeqN(TurbineVals, c.nTurbines),
        mode \in ({TRUE} \X RatedSpeedVals) \cup {<<FALSE, QInt(12)>>}}

\* the coefficient of pi in rotorArea = 0.25*np.pi*np.power(rotorDiameter, 2)
rotorArea(rotorDiameter) == QMul(Q(1, 4), QPow(rotorDiameter, 2))

\* the power curve with the ramp taken up to and including the rated speed
power_curve_ramp_closed(p, n) ==
    IF QLe(p.cut_in_speed[n], p.wtVelocity[n]) /\ QLe(p.wtVelocity[n], p.rated_wind_speed[n])
    THEN QMul(p.rated_power[n],
              QPow(QDiv(QSub(p.wtVelocity[n], p.cut_in_speed[n]),
                        QSub(p.rated_wind_speed[n], p.cut_in_speed[n])), 3))
    ELSE IF QLe(p.rated_wind_speed[n], p.wtVelocity[n]) /\ QLt(p.wtVelocity[n], p.cut_out_speed[n])
    THEN p.rated_power[n]
    ELSE QInt(0)

\* one turbine of the power curve: the cubic ramp from cut-in to rated wind
\* speed, the rated power up to cut-out, the 0 of np.zeros elsewhere
power_curve(p, n) ==
    IF QLe(p.cut_in_speed[n], p.wtVelocity[n]) /\ QLt(p.wtVelocity[n], p.rated_wind_speed[n])
    THEN QMul(p.rated_power[n],
              QPow(QDiv(QSub(p.wtVelocity[n], p.cut_in_speed[n]),
                        QSub(p.rated_wind_speed[n], p.cut_in_speed[n])), 3))
    ELSE IF QLe(p.rated_wind_speed[n], p.wtVelocity[n]) /\ QLt(p.wtVelocity[n], p.cut_out_speed[n])
    THEN p.rated_power[n]
    ELSE QInt(0)

\* the array 'Cp' after the loop Cp[i] = np.interp(...), which writes into the
\* array params['Cp'] itself
Cp_overwritten(p) ==
    [i \in 1..Len(p.Cp) |-> interp(p.wtVelocity[i], p.cp_curve_wind_speed, p.cp_curve_cp)]

\* Cp as solve_nonlinear uses it in the coefficient mode
solve_Cp(c, p) ==
    IF c.cp_points > 1
    THEN IF c.cp_curve_spline = None
         THEN Cp_overwritten(p)
         ELSE [i \in 1..c.nTurbines |-> spline_call(c.cp_curve_spline, p.wtVelocity[i])]
    ELSE p.Cp

\* generatorEfficiency*(0.5*air_density*rotorArea*Cp*wtVelocity^3)/1000, the
\* coefficient of pi
coefficient_power(p, Cp, i) ==
    QDiv(QMul(p.generatorEfficiency[i],
              QMul(QMul(QMul(QMul(Q(1, 2), p.air_density), rotorArea(p.rotorDiameter[i])),
                        Cp[i]),
                   QPow(p.wtVelocity[i], 3))),
         QInt(1000))

\* the cap at the rated power (not with use_rotor_components), then the 0.0
\* below the cut-in speed
limited_power(c, p, Cp, i) ==
    IF QLt(p.wtVelocity[i], p.cut_in_speed[i]) THEN Rat(QInt(0))
    ELSE IF ~c.use_rotor_components
            /\ RGe(Pi(coefficient_power(p, Cp, i)), Rat(p.rated_power[i]))
    THEN Rat(p.rated_power[i])
    ELSE Pi(coefficient_power(p, Cp, i))

\* solve_nonlinear on the inputs p.  wtVelocity is read from self.params, the
\* vector the framework passes as params.
WindDirectionPower_solve(c, p) ==
    LET wtPower ==
            IF p.use_power_curve_definition
            THEN [n \in 1..c.nTurbines |-> Rat(power_curve(p, n))]
            ELSE [i \in 1..c.nTurbines |-> limited_power(c, p, solve_Cp(c, p), i)]
        overwrite == ~p.use_power_curve_definition /\ c.cp_points > 1
                     /\ c.cp_curve_spline = None
    IN  [c EXCEPT
            !.params_given = p,
            !.params = IF overwrite THEN [p EXCEPT !.Cp = Cp_overwritten(p)] ELSE p,
            !.unknowns = [wtPower |-> wtPower, dir_power |-> RSum(wtPower)],
            !.solved = TRUE,
            !.ret = NoReturn,
            !.err = "none"]

\* dv = 1E-6
dv == Q(1, 1000000)

\* (np.interp(v + dv) - np.interp(v - dv))/(2.*dv)
dCpdV_interp(p, i) ==
    QDiv(QSub(interp(QAdd(p.wtVelocity[i], dv), p.cp_curve_wind_speed, p.cp_curve_cp),
              interp(QSub(p.wtVelocity[i], dv), p.cp_curve_wind_speed, p.cp_curve_cp)),
         QMul(QInt(2), dv))

\* Cp and dCpdV as linearize uses them in the coefficient mode
linearize_Cp(c, p) ==
    IF c.cp_points > 1 /\ c.cp_curve_spline = None THEN Cp_overwritten(p)
    ELSE IF c.cp_curve_spline # None
    THEN [i \in 1..Len(p.wtVelocity) |-> spline_call(c.cp_curve_spline, p.wtVelocity[i])]
    ELSE p.Cp

linearize_dCpdV(c, p) ==
    IF c.cp_points > 1 /\ c.cp_curve_spline = None
    THEN [i \in 1..c.nTurbines |-> dCpdV_interp(p, i)]
    ELSE IF c.cp_curve_spline # None
    THEN [i \in 1..Len(p.wtVelocity) |->
             spline_derivative(c.cp_curve_spline, p.wtVelocity[i])]
    ELSE Zeros(Len(p.Cp))

\* a diagonal entry is set to 0.0 for a turbine at or above its rated power
\* (by the wtPower of the last forward pass) or below its cut-in speed
gradient_zeroed(c, p, i) ==
    \/ RGe(c.unknowns.wtPower[i], Rat(p.rated_power[i]))
    \/ QLt(p.wtVelocity[i], p.cut_in_speed[i])

\* the first row of the matrix in place of the sum over its rows
column_sums_first_row(matrix) == <<matrix[1]>>

\* the sum over the rows of a matrix with nonzero entries on the diagonal only
column_sums(matrix) == <<[col \in 1..Len(matrix) |-> matrix[col][col]]>>

\* linearize in the power-curve mode
WindDirectionPower_J_power_curve(c, p) ==
    LET n == c.nTurbines
        dwtPower_dwtVelocity == RDiag([k \in 1..n |->
            IF QLe(p.cut_in_speed[k], p.wtVelocity[k])
               /\ QLt(p.wtVelocity[k], p.rated_wind_speed[k])
            THEN Rat(QMul(QMul(QMul(QInt(3), p.rated_power[k]),
                               QPow(QDiv(QSub(p.wtVelocity[k], p.cut_in_speed[k]),
                                         QSub(p.rated_wind_speed[k], p.cut_in_speed[k])), 2)),
                          QDiv(QInt(1), QSub(p.rated_wind_speed[k], p.cut_in_speed[k]))))
            ELSE Rat(QInt(0))])
        wtPower == "wtPower" \o ToString(c.direction_id)
        dir_power == "dir_power" \o ToString(c.direction_id)
        wtVelocity == "wtVelocity" \o ToString(c.direction_id)
    IN  (<<wtPower, wtVelocity>> :> dwtPower_dwtVelocity)
     @@ (<<wtPower, "rotorDiameter">> :> RZeros(n, n))
     @@ (<<wtPower, "Cp">> :> RZeros(n, n))
     @@ (<<dir_power, wtVelocity>> :> column_sums(dwtPower_dwtVelocity))
     @@ (<<dir_power, "rotorDiameter">> :> RZeros(1, n))
     @@ (<<dir_power, "Cp">> :> RZeros(1, n))

\* linearize in the coefficient mode
WindDirectionPower_J_coefficient(c, p) ==
    LET n == c.nTurbines
        Cp == linearize_Cp(c, p)
        dCpdV == linearize_dCpdV(c, p)
        half_rho(i) == QMul(QMul(Q(1, 2), p.generatorEfficiency[i]), p.air_density)
        dwtPower_dwtVelocity == RDiag([i \in 1..n |->
            IF gradient_zeroed(c, p, i) THEN Rat(QInt(0))
            ELSE Pi(QDiv(QMul(QMul(half_rho(i), rotorArea(p.rotorDiameter[i])),
                              QAdd(QMul(QMul(QInt(3), Cp[i]), QPow(p.wtVelocity[i], 2)),
                                   QMul(QPow(p.wtVelocity[i], 3), dCpdV[i]))),
                         QInt(1000)))])
        dwtPower_dCp == RDiag([i \in 1..n |->
            IF gradient_zeroed(c, p, i) THEN Rat(QInt(0))
            ELSE Pi(QDiv(QMul(p.generatorEfficiency[i],
                              QMul(QMul(QMul(Q(1, 2), p.air_density),
                                        rotorArea(p.rotorDiameter[i])),
                                   QPow(p.wtVelocity[i], 3))),
                         QInt(1000)))])
        dwtPower_drotorDiameter == RDiag([i \in 1..n |->
            IF gradient_zeroed(c, p, i) THEN Rat(QInt(0))
            ELSE Pi(QDiv(QMul(p.generatorEfficiency[i],
                              QMul(QMul(QMul(QMul(Q(1, 2), p.air_density),
                                             QMul(Q(1, 2), p.rotorDiameter[i])),
                                        Cp[i]),
                                   QPow(p.wtVelocity[i], 3))),
                         QInt(1000)))])
        wtPower == "wtPower" \o ToString(c.direction_id)
        dir_power == "dir_power" \o ToString(c.direction_id)
        wtVelocity == "wtVelocity" \o ToString(c.direction_id)
    IN  (<<wtPower, wtVelocity>> :> dwtPower_dwtVelocity)
     @@ (<<wtPower, "Cp">> :> dwtPower_dCp)
     @@ (<<wtPower, "rotorDiameter">> :> dwtPower_drotorDiameter)
     @@ (<<dir_power, wtVelocity>> :> column_sums(dwtPower_dwtVelocity))
     @@ (<<dir_power, "Cp">> :> column_sums(dwtPower_dCp))
     @@ (<<dir_power, "rotorDiameter">> :> column_sums(dwtPower_drotorDiameter))

\* linearize on the current params and unknowns
WindDirectionPower_lin(c) ==
    LET p == c.params
        overwrite == ~p.use_power_curve_definition /\ c.cp_points > 1
                     /\ c.cp_curve_spline = None
    IN  [c EXCEPT
            !.params = IF overwrite THEN [p EXCEPT !.Cp = Cp_overwritten(p)] ELSE p,
            !.ret = Returned(IF p.use_power_curve_definition
                             THEN WindDirectionPower_J_power_curve(c, p)
                             ELSE WindDirectionPower_J_coefficient(c, p)),
            !.err = "none"]

(***************************************************************************)
(* AdjustCtCpYaw                                                           *)
(***************************************************************************)
MaxAdjustTurbines == 2

AdjustCtCpYaw_params == {"Ct_in", "Cp_in", "yaw", "gen_params:pP",
                         "gen_params:CTcorrected", "gen_params:CPcorrected"}
AdjustCtCpYaw_pass_by_obj == {"gen_params:pP", "gen_params:CTcorrected",
                              "gen_params:CPcorrected"}
AdjustCtCpYaw_unknowns == {"Ct_out", "Cp_out"}

AdjustCtCpYaw_init(nTurbines) ==
    [nTurbines |-> nTurbines,
     direction_id |-> 0,
     params |-> [Ct_in |-> Zeros(nTurbines),
                 Cp_in |-> [i \in 1..nTurbines |-> Cp_default],
                 yaw |-> Zeros(nTurbines),
                 pP |-> pP_default,
                 CTcorrected |-> FALSE,
                 CPcorrected |-> FALSE],
     unknowns |-> [Ct_out |-> Zeros(nTurbines), Cp_out |-> Zeros(nTurbines)],
     ret |-> NoReturn,
     err |-> "none"]

\* (Ct_in, Cp_in) of one turbine, and its yaw in degrees
CoefficientVals == {<<Q(4, 5), Q(2, 5)>>, <<Q(3, 5), Q(1, 2)>>}
YawVals == {QInt(0), QInt(60)}

\* a yawed turbine occurs with the exponent pP = 3 only
AdjustCtCpYaw_inputs(nTurbines) ==
    {[Ct_in |-> [i \in 1..nTurbines |-> coefficient[i][1]],
      Cp_in |-> [i \in 1..nTurbines |-> coefficient[i][2]],
      yaw |-> yaw,
      pP |-> pP,
      CTcorrected |-> CTcorrected,
      CPcorrected |-> CPcorrected] :
        coefficient \in SeqN(CoefficientVals, nTurbines),
        yaw \in SeqN(YawVals, nTurbines),
        pP \in {QInt(3)},
        CTcorrected \in BOOLEAN,
        CPcorrected \in BOOLEAN}
    \cup
    {[Ct_in |-> [i \in 1..nTurbines |-> coefficient[i][1]],
      Cp_in |-> [i \in 1..nTurbines |-> coefficient[i][2]],
      yaw |-> Zeros(nTurbines),
      pP |-> pP_default,
      CTcorrected |-> CTcorrected,
      CPcorrected |-> CPcorrected] :
        coefficient \in SeqN(CoefficientVals, nTurbines),
        CTcorrected \in BOOLEAN,
        CPcorrected \in BOOLEAN}

\* Ct_out with the test of the other coefficient's flag
adjusted_Ct_by_CP_flag(p, i) ==
    IF ~p.CPcorrected
    THEN QMul(QMul(cos_deg(p.yaw[i]), cos_deg(p.yaw[i])), p.Ct_in[i])
    ELSE p.Ct_in[i]

\* np.cos(yaw)*np.cos(yaw)*Ct, or Ct
adjusted_Ct(p, i) ==
    IF ~p.CTcorrected
    THEN QMul(QMul(cos_deg(p.yaw[i]), cos_deg(p.yaw[i])), p.Ct_in[i])
    ELSE p.Ct_in[i]

\* Cp_out with the cosine multiplied by pP instead of raised to it
adjusted_Cp_times_pP(p, i) ==
    IF ~p.CPcorrected
    THEN QMul(p.Cp_in[i], QMul(cos_deg(p.yaw[i]), p.pP))
    ELSE p.Cp_in[i]

\* Cp * np.cos(yaw) ** pP, or Cp
adjusted_Cp(p, i) ==
    IF ~p.CPcorrected
    THEN QMul(p.Cp_in[i], pow(cos_deg(p.yaw[i]), p.pP))
    ELSE p.Cp_in[i]

AdjustCtCpYaw_solve(c, p) ==
    [c EXCEPT
        !.params = p,
        !.unknowns = [Ct_out |-> [i \in 1..c.nTurbines |-> adjusted_Ct(p, i)],
                      Cp_out |-> [i \in 1..c.nTurbines |-> adjusted_Cp(p, i)]],
        !.ret = NoReturn,
        !.err = "none"]

\* q*np.sin(yaw)*np.pi/180.: sin(0) is 0, and for the other yaw angles the
\* product is no rational number and is kept as the term that names it
sin_term(q, yaw) ==
    IF yaw = QInt(0) \/ q.n = 0
    THEN [times |-> QInt(0), sin_of |-> QInt(0)]
    ELSE [times |-> q, sin_of |-> yaw]

\* np.eye(n)*d for a vector d of such terms, and np.zeros((n, n)) among them
sin_diagonal(d) ==
    [r \in 1..Len(d) |-> [col \in 1..Len(d) |->
        IF r = col THEN d[col] ELSE sin_term(QInt(0), QInt(0))]]

AdjustCtCpYaw_lin(c) ==
    LET p == c.params
        n == Len(p.Ct_in)
        zeros == [r \in 1..n |-> Zeros(n)]
        Ct_blocks ==
            IF ~p.CTcorrected
            THEN (<<"Ct_out", "Ct_in">> :>
                     eye_times([i \in 1..n |->
                        QMul(cos_deg(p.yaw[i]), cos_deg(p.yaw[i]))]))
              @@ (<<"Ct_out", "Cp_in">> :> zeros)
              @@ (<<"Ct_out", "yaw">> :>
                     sin_diagonal([i \in 1..n |->
                        sin_term(QMul(p.Ct_in[i], QMul(QInt(-2), cos_deg(p.yaw[i]))),
                                 p.yaw[i])]))
            ELSE (<<"Ct_out", "Ct_in">> :> eye_times([i \in 1..n |-> QInt(1)]))
              @@ (<<"Ct_out", "Cp_in">> :> zeros)
              @@ (<<"Ct_out", "yaw">> :>
                     sin_diagonal([i \in 1..n |-> sin_term(QInt(0), QInt(0))]))
        Cp_blocks ==
            IF ~p.CPcorrected
            THEN (<<"Cp_out", "Cp_in">> :>
                     eye_times([i \in 1..n |-> pow(cos_deg(p.yaw[i]), p.pP)]))
              @@ (<<"Cp_out", "Ct_in">> :> zeros)
              @@ (<<"Cp_out", "yaw">> :>
                     sin_diagonal([i \in 1..n |->
                        sin_term(QMul(QMul(QNeg(p.Cp_in[i]), p.pP),
                                      pow(cos_deg(p.yaw[i]), QSub(p.pP, QInt(1)))),
                                 p.yaw[i])]))
            ELSE (<<"Cp_out", "Cp_in">> :> eye_times([i \in 1..n |-> QInt(1)]))
              @@ (<<"Cp_out", "Ct_in">> :> zeros)
              @@ (<<"Cp_out", "yaw">> :>
                     sin_diagonal([i \in 1..n |-> sin_term(QInt(0), QInt(0))]))
    IN  [c EXCEPT !.ret = Returned(Ct_blocks @@ Cp_blocks), !.err = "none"]

(***************************************************************************)
(* Numbers r + s*sqrt(3): the cosines and sines of the multiples of 30     *)
(* degrees, and the coordinates they rotate                                *)
(***************************************************************************)
Surd(r, s) == [r |-> r, s |-> s]
SurdOf(q) == Surd(q, QInt(0))
SurdAdd(a, b) == Surd(QAdd(a.r, b.r), QAdd(a.s, b.s))
SurdNeg(a) == Surd(QNeg(a.r), QNeg(a.s))
SurdSub(a, b) == SurdAdd(a, SurdNeg(b))
SurdMul(a, b) ==
    Surd(QAdd(QMul(a.r, b.r), QMul(QInt(3), QMul(a.s, b.s))),
         QAdd(QMul(a.r, b.s), QMul(a.s, b.r)))
SurdZeros(n) == [i \in 1..n |-> SurdOf(QInt(0))]

(***************************************************************************)
(* WindFrame                                                               *)
(***************************************************************************)
MaxFrameTurbines == 2
MaxSamples == 1

WindFrame_init(nTurbines, nSamples) ==
    [nTurbines |-> nTurbines,
     nSamples |-> nSamples,
     params |-> [wind_speed |-> QInt(8),
                 wind_direction |-> QInt(270),
                 turbineX |-> Zeros(nTurbines),
                 turbineY |-> Zeros(nTurbines),
                 wsPositionX |-> Zeros(nSamples),
                 wsPositionY |-> Zeros(nSamples)],
     unknowns |-> [turbineXw |-> SurdZeros(nTurbines),
                   turbineYw |-> SurdZeros(nTurbines),
                   wsPositionXw |-> SurdZeros(nSamples),
                   wsPositionYw |-> SurdZeros(nSamples)],
     windDirectionDeg |-> None,
     ret |-> NoReturn,
     err |-> "none"]

\* wind directions in degrees, positions of a turbine and of a sample point
WindDirectionVals == {QInt(270), QInt(0), QInt(90), QInt(180), QInt(360),
                     QInt(60), QInt(300), QInt(-90), QInt(720)}
TurbinePositionVals == {<<QInt(3), QInt(4)>>, <<QInt(0), QInt(0)>>, <<QInt(-2), QInt(5)>>}
SampleVals == {<<QInt(1), QInt(2)>>, <<QInt(0), QInt(-1)>>}

WindFrame_inputs(c) ==
    {[wind_speed |-> QInt(8),
      wind_direction |-> direction,
      turbineX |-> [i \in 1..c.nTurbines |-> position[i][1]],
      turbineY |-> [i \in 1..c.nTurbines |-> position[i][2]],
      wsPositionX |-> [i \in 1..c.nSamples |-> sample[i][1]],
      wsPositionY |-> [i \in 1..c.nSamples |-> sample[i][2]]] :
        direction \in WindDirectionVals,
        position \in SeqN(TurbinePositionVals, c.nTurbines),
        sample \in SeqN(SampleVals, c.nSamples)}

\* windDirectionDeg = 270. - windDirectionDeg; if windDirectionDeg < 0.:
\* windDirectionDeg += 360.
adjust_direction(windDirectionDeg) ==
    LET converted == QSub(QInt(270), windDirectionDeg)
    IN  IF QLt(converted, QInt(0)) THEN QAdd(converted, QInt(360)) ELSE converted

\* np.cos and np.sin of np.pi*deg/180.0 for deg a multiple of 30
np_cos(deg) ==
    LET k == (deg.n % 360) \div 30
    IN  CASE k \in {0} -> SurdOf(QInt(1))
          [] k \in {1, 11} -> Surd(QInt(0), Q(1, 2))
          [] k \in {2, 10} -> SurdOf(Q(1, 2))
          [] k \in {3, 9} -> SurdOf(QInt(0))
          [] k \in {4, 8} -> SurdOf(Q(-1, 2))
          [] k \in {5, 7} -> Surd(QInt(0), Q(-1, 2))
          [] k \in {6} -> SurdOf(QInt(-1))
np_sin(deg) ==
    LET k == (deg.n % 360) \div 30
    IN  CASE k \in {0, 6} -> SurdOf(QInt(0))
          [] k \in {1, 5} -> SurdOf(Q(1, 2))
          [] k \in {2, 4} -> Surd(QInt(0), Q(1, 2))
          [] k \in {3} -> SurdOf(QInt(1))
          [] k \in {7, 11} -> SurdOf(Q(-1, 2))
          [] k \in {8, 10} -> Surd(QInt(0), Q(-1, 2))
          [] k \in {9} -> SurdOf(QInt(-1))

\* the downwind coordinate with the sine term added instead of subtracted
downwind_sine_added(x, y, deg) ==
    SurdAdd(SurdMul(SurdOf(x), np_cos(QNeg(deg))), SurdMul(SurdOf(y), np_sin(QNeg(deg))))

\* x*np.cos(-windDirectionRad)-y*np.sin(-windDirectionRad)
downwind(x, y, deg) ==
    SurdSub(SurdMul(SurdOf(x), np_cos(QNeg(deg))), SurdMul(SurdOf(y), np_sin(QNeg(deg))))

\* x*np.sin(-windDirectionRad)+y*np.cos(-windDirectionRad)
crosswind(x, y, deg) ==
    SurdAdd(SurdMul(SurdOf(x), np_sin(QNeg(deg))), SurdMul(SurdOf(y), np_cos(QNeg(deg))))

WindFrame_solve(c, p) ==
    LET windDirectionDeg == adjust_direction(p.wind_direction)
    IN  [c EXCEPT
            !.params = p,
            !.windDirectionDeg = windDirectionDeg,
            !.unknowns =
                [turbineXw |-> [i \in 1..Len(p.turbineX) |->
                    downwind(p.turbineX[i], p.turbineY[i], windDirectionDeg)],
                 turbineYw |-> [i \in 1..Len(p.turbineX) |->
                    crosswind(p.turbineX[i], p.turbineY[i], windDirectionDeg)],
                 wsPositionXw |-> [i \in 1..c.nSamples |->
                    downwind(p.wsPositionX[i], p.wsPositionY[i], windDirectionDeg)],
                 wsPositionYw |-> [i \in 1..c.nSamples |->
                    crosswind(p.wsPositionX[i], p.wsPositionY[i], windDirectionDeg)]],
            !.ret = NoReturn,
            !.err = "none"]

\* a square matrix with the value in every entry, not on the diagonal only
surd_full_times(n, value) == [r \in 1..n |-> [col \in 1..n |-> value]]

\* np.eye(nTurbines, nTurbines)*value
surd_eye_times(n, value) ==
    [r \in 1..n |-> [col \in 1..n |-> IF r = col THEN value ELSE SurdOf(QInt(0))]]

WindFrame_lin(c) ==
    LET windDirectionDeg == adjust_direction(c.params.wind_direction)
        n == c.nTurbines
        J == (<<"turbineXw", "turbineX">> :> surd_eye_times(n, np_cos(QNeg(windDirectionDeg))))
          @@ (<<"turbineXw", "turbineY">> :>
                 surd_eye_times(n, SurdNeg(np_sin(QNeg(windDirectionDeg)))))
          @@ (<<"turbineYw", "turbineX">> :> surd_eye_times(n, np_sin(QNeg(windDirectionDeg))))
          @@ (<<"turbineYw", "turbineY">> :> surd_eye_times(n, np_cos(QNeg(windDirectionDeg))))
    IN  [c EXCEPT !.windDirectionDeg = windDirectionDeg,
                  !.ret = Returned(J),
                  !.err = "none"]

(***************************************************************************)
(* CPCT_Interpolate_Gradients_Smooth                                       *)
(***************************************************************************)
MaxSmoothTurbines == 2

\* the attributes dCp_out_dyaw, ... exist once solve_nonlinear has set them
CPCT_Smooth_init(nTurbines, datasize) ==
    [nTurbines |-> nTurbines,
     datasize |-> datasize,
     params |-> [yaw |-> Zeros(nTurbines),
                 wtVelocity |-> Zeros(nTurbines),
                 pP |-> QInt(3),
                 windSpeedToCPCT_wind_speed |-> Zeros(datasize),
                 windSpeedToCPCT_CP |-> Zeros(datasize),
                 windSpeedToCPCT_CT |-> Zeros(datasize)],
     unknowns |-> [Cp_out |-> Zeros(nTurbines), Ct_out |-> Zeros(nTurbines)],
     interpolated_at |-> <<>>,
     attributes |-> None,
     ret |-> NoReturn,
     err |-> "none"]

\* a curve whose points lie on one line, at hub wind speeds within it
CPCT_Smooth_inputs(c) ==
    {[yaw |-> [i \in 1..c.nTurbines |-> flow[i][1]],
      wtVelocity |-> [i \in 1..c.nTurbines |-> flow[i][2]],
      pP |-> QInt(3),
      windSpeedToCPCT_wind_speed |-> <<QInt(4), QInt(8), QInt(12)>>,
      windSpeedToCPCT_CP |-> <<Q(1, 5), Q(3, 10), Q(2, 5)>>,
      windSpeedToCPCT_CT |-> <<Q(4, 5), Q(3, 5), Q(2, 5)>>] :
        flow \in SeqN({QInt(0), QInt(60)} \X {QInt(6), QInt(10)}, c.nTurbines)}

\* Akima(xpt, ypt).interp(x) for points on one line and x within them: the
\* value on the line and the slope of the line
Akima_interp(xpt, ypt, x) ==
    LET slope == QDiv(QSub(ypt[Len(ypt)], ypt[1]), QSub(xpt[Len(xpt)], xpt[1]))
    IN  [y |-> QAdd(ypt[1], QMul(slope, QSub(x, xpt[1]))), dydx |-> slope]

\* solve_nonlinear: the splines are evaluated at params['wtVelocity%i'], the
\* derivative terms are stored as attributes of the component
CPCT_Smooth_solve(c, p) ==
    LET n == c.nTurbines
        at == p.wtVelocity
        CP == [i \in 1..n |->
                 Akima_interp(p.windSpeedToCPCT_wind_speed, p.windSpeedToCPCT_CP, at[i])]
        CT == [i \in 1..n |->
                 Akima_interp(p.windSpeedToCPCT_wind_speed, p.windSpeedToCPCT_CT, at[i])]
    IN  [c EXCEPT
            !.params = p,
            !.interpolated_at = at,
            !.unknowns =
                [Cp_out |-> [i \in 1..n |-> QMul(CP[i].y, pow(cos_deg(p.yaw[i]), p.pP))],
                 Ct_out |-> [i \in 1..n |-> QMul(CT[i].y, QPow(cos_deg(p.yaw[i]), 2))]],
            !.attributes =
                [dCp_out_dyaw |-> [i \in 1..n |->
                    sin_term(QMul(QMul(QNeg(p.pP), CP[i].y),
                                  pow(cos_deg(p.yaw[i]), QSub(p.pP, QInt(1)))),
                             p.yaw[i])],
                 dCp_out_dvel |-> [i \in 1..n |->
                    QMul(CP[i].dydx, pow(cos_deg(p.yaw[i]), p.pP))],
                 dCt_out_dyaw |-> [i \in 1..n |->
                    sin_term(QMul(QMul(QInt(-2), CT[i].y), cos_deg(p.yaw[i])), p.yaw[i])],
                 dCt_out_dvel |-> [i \in 1..n |->
                    QMul(CT[i].dydx, QPow(cos_deg(p.yaw[i]), 2))]],
            !.ret = NoReturn,
            !.err = "none"]

\* linearize(params = p): the dictionary is built from the attributes, p is
\* not read; without the attributes the first of them raises AttributeError
CPCT_Smooth_lin(c, p) ==
    IF c.attributes = None
    THEN [c EXCEPT !.params = p, !.ret = NoReturn, !.err = "AttributeError"]
    ELSE [c EXCEPT
            !.params = p,
            !.ret = Returned(
                   (<<"Cp_out", "yaw">> :> sin_diagonal(c.attributes.dCp_out_dyaw))
                @@ (<<"Cp_out", "wtVelocity">> :> eye_times(c.attributes.dCp_out_dvel))
                @@ (<<"Ct_out", "yaw">> :> sin_diagonal(c.attributes.dCt_out_dyaw))
                @@ (<<"Ct_out", "wtVelocity">> :> eye_times(c.attributes.dCt_out_dvel))),
            !.err = "none"]

(***************************************************************************)
(* calculate_boundary                                                      *)
(***************************************************************************)
MaxHullPoints == 4

\* points with integer coordinates: the corners of a 4 x 3 rectangle, a point
\* on its lower edge and two points inside it
HullPointVals == {<<QInt(0), QInt(0)>>, <<QInt(4), QInt(0)>>, <<QInt(4), QInt(3)>>,
                  <<QInt(0), QInt(3)>>, <<QInt(2), QInt(0)>>, <<QInt(1), QInt(1)>>,
                  <<QInt(2), QInt(1)>>}

\* twice the signed area of the triangle a, b, q: positive with q to the
\* left of the line from a to b
cross(a, b, q) ==
    QSub(QMul(QSub(b[1], a[1]), QSub(q[2], a[2])),
         QMul(QSub(b[2], a[2]), QSub(q[1], a[1])))

\* ConvexHull(points).vertices: the indices of the corners of the hull in
\* counter-clockwise order, from any of them on; no such list exists for
\* fewer than three points or points on one line (QhullError)
ConvexHull_vertices(points) ==
    LET n == Len(points)
        next(order, i) == order[(i % Len(order)) + 1]
    IN  {order \in UNION {[1..k -> 1..n] : k \in 3..n} :
           /\ \A i, j \in 1..Len(order) : i # j => order[i] # order[j]
           /\ \A i \in 1..Len(order) :
                 /\ \A q \in 1..n :
                       cross(points[order[i]], points[next(order, i)], points[q]).n >= 0
                 /\ cross(points[order[i]], points[next(order, i)],
                          points[next(order, i + 1)]).n > 0}

\* np.linalg.norm of a vector with integer components whose length is an
\* integer
norm(v) ==
    LET squared == QAdd(QMul(v[1], v[1]), QMul(v[2], v[2])).n
    IN  QInt(CHOOSE k \in 0..squared : k * k = squared)
has_integer_norm(v) ==
    LET squared == QAdd(QMul(v[1], v[1]), QMul(v[2], v[2])).n
    IN  \E k \in 0..squared : k * k = squared

\* the normal of the face turned to the other side
edge_normal_inward(from, to) ==
    LET normal == <<QNeg(QSub(to[2], from[2])), QSub(to[1], from[1])>>
    IN  <<QDiv(normal[1], norm(normal)), QDiv(normal[2], norm(normal))>>

\* normal = [to.y - from.y, -(to.x - from.x)]; normal/np.linalg.norm(normal)
edge_normal(from, to) ==
    LET normal == <<QSub(to[2], from[2]), QNeg(QSub(to[1], from[1]))>>
    IN  <<QDiv(normal[1], norm(normal)), QDiv(normal[2], norm(normal))>>

\* the point lists handed in: two to MaxHullPoints different points, every
\* two of them an integer distance apart where they are neighbours on the hull
HullPointLists ==
    {points \in UNION {[1..k -> HullPointVals] : k \in 2..MaxHullPoints} :
        /\ \A i, j \in 1..Len(points) : i # j => points[i] # points[j]
        /\ \A order \in ConvexHull_vertices(points) : \A i \in 1..Len(order) :
              has_integer_norm(<<QSub(points[order[(i % Len(order)) + 1]][1], points[order[i]][1]),
                                 QSub(points[order[(i % Len(order)) + 1]][2], points[order[i]][2])>>)}

\* calculate_boundary(points) with hull.vertices = hull_vertices
calculate_boundary(points, hull_vertices) ==
    LET vertices == [j \in 1..Len(hull_vertices) |-> points[hull_vertices[j]]]
        nVertices == Len(vertices)
    IN  [raised |-> "none",
         vertices |-> vertices,
         unit_normals |-> [j \in 1..nVertices |->
             IF j < nVertices THEN edge_normal(vertices[j], vertices[j + 1])
             ELSE edge_normal(vertices[j], vertices[1])]]

hull_init == [called |-> FALSE]

(***************************************************************************)
(* The variables a step leaves alone, and their values where a             *)
(* specification does not construct them otherwise                         *)
(***************************************************************************)
Only(changed) ==
    /\ IF "aep" \in changed THEN TRUE ELSE UNCHANGED aep
    /\ IF "config" \in changed THEN TRUE ELSE UNCHANGED config
    /\ IF "mux" \in changed THEN TRUE ELSE UNCHANGED mux
    /\ IF "demux" \in changed THEN TRUE ELSE UNCHANGED demux
    /\ IF "spacing" \in changed THEN TRUE ELSE UNCHANGED spacing
    /\ IF "boundary" \in changed THEN TRUE ELSE UNCHANGED boundary
    /\ IF "distance" \in changed THEN TRUE ELSE UNCHANGED distance
    /\ IF "cpct" \in changed THEN TRUE ELSE UNCHANGED cpct
    /\ IF "power" \in changed THEN TRUE ELSE UNCHANGED power
    /\ IF "adjust" \in changed THEN TRUE ELSE UNCHANGED adjust
    /\ IF "frame" \in changed THEN TRUE ELSE UNCHANGED frame
    /\ IF "smooth" \in changed THEN TRUE ELSE UNCHANGED smooth
    /\ IF "hull" \in changed THEN TRUE ELSE UNCHANGED hull

Default(constructed) ==
    /\ IF "aep" \in constructed THEN TRUE ELSE aep = WindFarmAEP_init(1, FALSE, 0)
    /\ IF "config" \in constructed THEN TRUE ELSE config = config_init
    /\ IF "mux" \in constructed THEN TRUE ELSE mux = MUX_init(1)
    /\ IF "demux" \in constructed THEN TRUE ELSE demux = DeMUX_init(1)
    /\ IF "spacing" \in constructed THEN TRUE ELSE spacing = SpacingComp_init(1)
    /\ IF "boundary" \in constructed THEN TRUE ELSE boundary = BoundaryComp_none
    /\ IF "distance" \in constructed THEN TRUE ELSE distance = distance_init
    /\ IF "cpct" \in constructed THEN TRUE ELSE cpct = CPCT_init(1, 0)
    /\ IF "power" \in constructed THEN TRUE
       ELSE power = WindDirectionPower_init(1, FALSE, 1, None)
    /\ IF "adjust" \in constructed THEN TRUE ELSE adjust = AdjustCtCpYaw_init(1)
    /\ IF "frame" \in constructed THEN TRUE ELSE frame = WindFrame_init(1, 0)
    /\ IF "smooth" \in constructed THEN TRUE ELSE smooth = CPCT_Smooth_init(1, 0)
    /\ hull = hull_init

(***************************************************************************)
(* WindFarmAEP: forward and Jacobian calls.  linearize runs on the params  *)
(* vector the last solve_nonlinear was given.                              *)
(***************************************************************************)
WindFarmAEP_solve_nonlinear ==
    /\ CallsBelowBound(aep, config)
    /\ \E p \in WindFarmAEP_inputs(aep.nDirections) :
          LET r == WindFarmAEP_solve(aep, config, p)
          IN  aep' = r.comp /\ config' = r.config
    /\ Only({"aep", "config"})

WindFarmAEP_linearize ==
    /\ CallsBelowBound(aep, config)
    /\ LET r == WindFarmAEP_lin(aep, config)
       IN  aep' = r.comp /\ config' = r.config
    /\ Only({"aep", "config"})

InitAEP ==
    /\ aep \in {WindFarmAEP_init(n, rec, rank) :
                  n \in 1..MaxDirections, rec \in BOOLEAN, rank \in Ranks}
    /\ config = config_init
    /\ Default({"aep", "config"})

NextAEP == WindFarmAEP_solve_nonlinear \/ WindFarmAEP_linearize

SpecAEP == InitAEP /\ [][NextAEP]_vars

(***************************************************************************)
(* MUX feeding DeMUX: both are built for the same number of elements       *)
(***************************************************************************)
MUX_solve_nonlinear ==
    /\ \E p \in [MUX_params(mux.nElements) -> ElementVals] : mux' = MUX_solve(mux, p)
    /\ Only({"mux"})

MUX_linearize ==
    /\ mux' = MUX_lin(mux)
    /\ Only({"mux"})

\* DeMUX runs on any array, the one MUX produced among them
DeMUX_solve_nonlinear ==
    /\ \E Array \in SeqN(ElementVals, demux.nElements) \cup {mux.unknowns.Array} :
          demux' = DeMUX_solve(demux, [Array |-> Array])
    /\ Only({"demux"})

DeMUX_linearize ==
    /\ demux' = DeMUX_lin(demux)
    /\ Only({"demux"})

InitMUX ==
    /\ \E n \in 1..MaxElements : mux = MUX_init(n) /\ demux = DeMUX_init(n)
    /\ Default({"mux", "demux"})

NextMUX ==
    \/ MUX_solve_nonlinear
    \/ MUX_linearize
    \/ DeMUX_solve_nonlinear
    \/ DeMUX_linearize

SpecMUX == InitMUX /\ [][NextMUX]_vars

(***************************************************************************)
(* SpacingComp: linearize runs on the params vector of the last forward    *)
(* call                                                                    *)
(***************************************************************************)
SpacingComp_solve_nonlinear ==
    /\ \E p \in SpacingComp_inputs(spacing.nTurbines) :
          spacing' = SpacingComp_solve(spacing, p)
    /\ Only({"spacing"})

SpacingComp_linearize ==
    /\ spacing' = SpacingComp_lin(spacing)
    /\ Only({"spacing"})

InitSpacing ==
    /\ \E n \in 1..MaxTurbines : spacing = SpacingComp_init(n)
    /\ Default({"spacing"})

NextSpacing == SpacingComp_solve_nonlinear \/ SpacingComp_linearize

SpecSpacing == InitSpacing /\ [][NextSpacing]_vars

(***************************************************************************)
(* calculate_distance: one call of the free function on a point list, the  *)
(* vertices of a polygon and a list of normals                             *)
(***************************************************************************)
calculate_distance_call ==
    /\ ~distance.called
    /\ \E nPoints \in 0..MaxPoints, nVertices \in 1..MaxVertices, return_bool \in BOOLEAN :
         \E points \in SeqN(PointVals, nPoints), unit_normals \in NormalLists(nVertices) :
            distance' = [called |-> TRUE,
                         points |-> points,
                         vertices |-> Polygon(nVertices).vertices,
                         unit_normals |-> unit_normals,
                         return_bool |-> return_bool,
                         result |-> calculate_distance(points,
                                        Polygon(nVertices).vertices,
                                        unit_normals, return_bool)]
    /\ Only({"distance"})

InitDistance == Default({})

NextDistance == calculate_distance_call

SpecDistance == InitDistance /\ [][NextDistance]_vars

(***************************************************************************)
(* BoundaryComp: construction, then forward and Jacobian calls             *)
(***************************************************************************)
BoundaryComp_construct ==
    /\ ~boundary.constructed
    /\ \E nTurbines \in 1..MaxBoundaryTurbines, nVertices \in -1..MaxVertices :
          boundary' = BoundaryComp_init(nTurbines, nVertices)
    /\ Only({"boundary"})

BoundaryComp_solve_nonlinear ==
    /\ boundary.constructed
    /\ \E p \in BoundaryComp_inputs(boundary) : boundary' = BoundaryComp_solve(boundary, p)
    /\ Only({"boundary"})

BoundaryComp_linearize ==
    /\ boundary.constructed
    /\ boundary' = BoundaryComp_lin(boundary)
    /\ Only({"boundary"})

InitBoundary == Default({})

NextBoundary ==
    \/ BoundaryComp_construct
    \/ BoundaryComp_solve_nonlinear
    \/ BoundaryComp_linearize

SpecBoundary == InitBoundary /\ [][NextBoundary]_vars

(***************************************************************************)
(* CPCT_Interpolate_Gradients: linearize runs on the params vector of the  *)
(* last forward call                                                       *)
(***************************************************************************)
CPCT_solve_nonlinear ==
    /\ \E p \in CPCT_inputs(cpct) : cpct' = CPCT_solve(cpct, p)
    /\ Only({"cpct"})

CPCT_linearize ==
    /\ cpct' = CPCT_lin(cpct)
    /\ Only({"cpct"})

InitCPCT ==
    /\ \E n \in 1..MaxCPCTTurbines, curve \in CurveVals :
          cpct = CPCT_init(n, Len(curve.wind_speed))
    /\ Default({"cpct"})

NextCPCT == CPCT_solve_nonlinear \/ CPCT_linearize

SpecCPCT == InitCPCT /\ [][NextCPCT]_vars

(***************************************************************************)
(* WindDirectionPower: the driver runs the forward pass, then the          *)
(* Jacobian on the same params and on the wtPower the forward pass wrote   *)
(***************************************************************************)
WindDirectionPower_solve_nonlinear ==
    /\ \E p \in WindDirectionPower_inputs(power) :
          power' = WindDirectionPower_solve(power, p)
    /\ Only({"power"})

WindDirectionPower_linearize ==
    /\ power.solved
    /\ power' = WindDirectionPower_lin(power)
    /\ Only({"power"})

InitPower ==
    /\ \E n \in 1..MaxPowerTurbines, use_rotor_components \in BOOLEAN,
          cp_points \in CpPointVals, cp_curve_spline \in SplineVals :
          power = WindDirectionPower_init(n, use_rotor_components, cp_points, cp_curve_spline)
    /\ Default({"power"})

NextPower == WindDirectionPower_solve_nonlinear \/ WindDirectionPower_linearize

SpecPower == InitPower /\ [][NextPower]_vars

(***************************************************************************)
(* AdjustCtCpYaw                                                           *)
(***************************************************************************)
AdjustCtCpYaw_solve_nonlinear ==
    /\ \E p \in AdjustCtCpYaw_inputs(adjust.nTurbines) :
          adjust' = AdjustCtCpYaw_solve(adjust, p)
    /\ Only({"adjust"})

AdjustCtCpYaw_linearize ==
    /\ adjust' = AdjustCtCpYaw_lin(adjust)
    /\ Only({"adjust"})

InitAdjust ==
    /\ \E n \in 1..MaxAdjustTurbines : adjust = AdjustCtCpYaw_init(n)
    /\ Default({"adjust"})

NextAdjust == AdjustCtCpYaw_solve_nonlinear \/ AdjustCtCpYaw_linearize

SpecAdjust == InitAdjust /\ [][NextAdjust]_vars

(***************************************************************************)
(* WindFrame                                                               *)
(***************************************************************************)
WindFrame_solve_nonlinear ==
    /\ \E p \in WindFrame_inputs(frame) : frame' = WindFrame_solve(frame, p)
    /\ Only({"frame"})

WindFrame_linearize ==
    /\ frame' = WindFrame_lin(frame)
    /\ Only({"frame"})

InitFrame ==
    /\ \E n \in 1..MaxFrameTurbines, nSamples \in 0..MaxSamples :
          frame = WindFrame_init(n, nSamples)
    /\ Default({"frame"})

NextFrame == WindFrame_solve_nonlinear \/ WindFrame_linearize

SpecFrame == InitFrame /\ [][NextFrame]_vars

(***************************************************************************)
(* CPCT_Interpolate_Gradients_Smooth: linearize is handed params of its    *)
(* own, which need not be those of the latest forward pass                 *)
(***************************************************************************)
CPCT_Smooth_solve_nonlinear ==
    /\ \E p \in CPCT_Smooth_inputs(smooth) : smooth' = CPCT_Smooth_solve(smooth, p)
    /\ Only({"smooth"})

CPCT_Smooth_linearize ==
    /\ \E p \in CPCT_Smooth_inputs(smooth) : smooth' = CPCT_Smooth_lin(smooth, p)
    /\ Only({"smooth"})

InitSmooth ==
    /\ \E n \in 1..MaxSmoothTurbines : smooth = CPCT_Smooth_init(n, 3)
    /\ Default({"smooth"})

NextSmooth == CPCT_Smooth_solve_nonlinear \/ CPCT_Smooth_linearize

SpecSmooth == InitSmooth /\ [][NextSmooth]_vars

(***************************************************************************)
(* calculate_boundary: one call of the free function on a point list       *)
(***************************************************************************)
calculate_boundary_call ==
    /\ ~hull.called
    /\ \E points \in HullPointLists :
          IF ConvexHull_vertices(points) = {}
          THEN hull' = [called |-> TRUE, points |-> points,
                        result |-> [raised |-> "QhullError"]]
          ELSE \E hull_vertices \in ConvexHull_vertices(points) :
                  hull' = [called |-> TRUE, points |-> points,
                           result |-> calculate_boundary(points, hull_vertices)]
    /\ Only({"hull"})

InitHull == Default({})

NextHull == calculate_boundary_call

SpecHull == InitHull /\ [][NextHull]_vars

(***************************************************************************)
(* Properties                                                              *)
(***************************************************************************)

\* the (output, input) keys a complete Jacobian holds: every declared output
\* with every declared input that is not passed by object
DeclaredPairs(unknowns, params, pass_by_obj) == unknowns \X (params \ pass_by_obj)

\* C1: the keys of the dictionary linearize returns are exactly the declared
\* outputs crossed with the declared (differentiable) inputs, for every
\* component
C1_JacobianKeysComplete ==
    /\ aep.ret.returned =>
         DOMAIN aep.ret.J = DeclaredPairs(WindFarmAEP_unknowns, WindFarmAEP_params,
                                          WindFarmAEP_pass_by_obj)
    /\ mux.ret.returned =>
         DOMAIN mux.ret.J = DeclaredPairs(MUX_unknowns, MUX_params(mux.nElements), {})
    /\ demux.ret.returned =>
         DOMAIN demux.ret.J = DeclaredPairs(DeMUX_unknowns(demux.nElements),
                                            DeMUX_params, {})
    /\ spacing.ret.returned =>
         DOMAIN spacing.ret.J = DeclaredPairs(SpacingComp_unknowns,
                                              SpacingComp_params, {})
    /\ boundary.ret.returned =>
         DOMAIN boundary.ret.J = DeclaredPairs(BoundaryComp_unknowns,
                                               BoundaryComp_params(boundary.type),
                                               BoundaryComp_pass_by_obj)
    /\ cpct.ret.returned =>
         DOMAIN cpct.ret.J = DeclaredPairs(CPCT_unknowns, CPCT_params, CPCT_pass_by_obj)
    /\ adjust.ret.returned =>
         DOMAIN adjust.ret.J = DeclaredPairs(AdjustCtCpYaw_unknowns, AdjustCtCpYaw_params,
                                             AdjustCtCpYaw_pass_by_obj)
    /\ power.ret.returned =>
         DOMAIN power.ret.J = DeclaredPairs(WindDirectionPower_unknowns(power.direction_id),
                                            WindDirectionPower_params(power.direction_id),
                                            WindDirectionPower_pass_by_obj)

\* C3: feeding v as input0..input(n-1) to MUX and the resulting Array to
\* DeMUX gives output_i = v[i] for every i
C3_RoundTrip ==
    (demux.params.Array = mux.unknowns.Array) =>
        \A i \in 0..(mux.nElements - 1) :
            demux.unknowns[output_name(i)] = mux.params[input_name(i)]

\* a round trip of three distinct values
C3_Witness ==
    /\ mux.nElements = 3
    /\ demux.params.Array = mux.unknowns.Array
    /\ mux.params["input0"] = QInt(1)
    /\ mux.params["input1"] = Q(5, 2)
    /\ mux.params["input2"] = QInt(0)
    /\ demux.unknowns["output0"] = QInt(1)
    /\ demux.unknowns["output1"] = Q(5, 2)
    /\ demux.unknowns["output2"] = QInt(0)

\* sum over i of the numerators of dirPowers[i]*windFrequencies[i] over the
\* common denominator 4 (powers are whole kW, frequencies halves or quarters)
RECURSIVE WeightedQuarters(_, _, _)
WeightedQuarters(dirPowers, windFrequencies, i) ==
    IF i = 0 THEN 0
    ELSE WeightedQuarters(dirPowers, windFrequencies, i - 1)
         + dirPowers[i].n * windFrequencies[i].n
             * (4 \div (dirPowers[i].d * windFrequencies[i].d))

\* C4: with AEP_method 'none' the output AEP is 8760 times the sum of
\* dirPowers[i]*windFrequencies[i]; [100,200] with [0.5,0.5] gives 1,314,000
C4_AEP_none ==
    (aep.params.AEP_method = "none" /\ aep.err = "none") =>
        /\ aep.unknowns.AEP.d # 0
        /\ 4 * aep.unknowns.AEP.n =
             aep.unknowns.AEP.d * 8760
               * WeightedQuarters(aep.params.dirPowers, aep.params.windFrequencies,
                                  aep.nDirections)
        /\ (/\ aep.params.dirPowers = <<QInt(100), QInt(200)>>
            /\ aep.params.windFrequencies = <<Q(1, 2), Q(1, 2)>>)
              => aep.unknowns.AEP = QInt(1314000)

C4_Witness ==
    /\ aep.params.AEP_method = "none"
    /\ aep.err = "none"
    /\ aep.params.dirPowers = <<QInt(100), QInt(200)>>
    /\ aep.params.windFrequencies = <<Q(1, 2), Q(1, 2)>>
    /\ aep.unknowns.AEP = QInt(1314000)

\* C5: a call (solve_nonlinear or linearize) with an AEP_method other than
\* 'none', 'log', 'inverse' ends in the ValueError, returns no Jacobian and
\* leaves the 'AEP' output and the call counters as they were before it
C5_InvalidMethodError ==
    [][(NextAEP /\ aep'.params.AEP_method \notin {"none", "log", "inverse"}) =>
          /\ aep'.err = "ValueError"
          /\ aep'.ret = NoReturn
          /\ aep'.unknowns = aep.unknowns
          /\ config' = config]_vars

\* a failed call that found a forward result and counted calls to preserve
C5_Witness ==
    /\ aep.err = "ValueError"
    /\ aep.params.AEP_method = "sqrt"
    /\ aep.unknowns.AEP = QInt(1314000)
    /\ config.obj_func_calls_array[aep.rank] > 0
    /\ config.sens_func_calls_array[aep.rank] > 0

\* the pairs (i, j), i < j, of N turbines counted from 0
Pairs(N) == {ij \in (0..(N - 1)) \X (0..(N - 1)) : ij[1] < ij[2]}

\* the position of pair (i, j) in row-major order, counted from 0
PairIndex(N, i, j) == i * N - (i * (i + 1)) \div 2 + (j - i - 1)

\* a and b as exact fractions: a - b, and x = y^2 + z^2, by cross-multiplication
IsDifference(x, a, b) ==
    x.d # 0 /\ x.n * a.d * b.d = x.d * (a.n * b.d - b.n * a.d)
IsSumOfSquares(x, y, z) ==
    x.d # 0 /\ x.n * y.d * y.d * z.d * z.d
                 = x.d * (y.n * y.n * z.d * z.d + z.n * z.n * y.d * y.d)

\* C9: the forward output has N(N-1)/2 entries and the entry of pair (i, j),
\* at position i*N - i*(i+1)/2 + (j-i-1), is (x_j-x_i)^2 + (y_j-y_i)^2
C9_SeparationSquared ==
    LET N == spacing.nTurbines
        X == spacing.params.turbineX
        Y == spacing.params.turbineY
        out == spacing.unknowns.wtSeparationSquared
    IN  /\ 2 * Len(out) = N * (N - 1)
        /\ \A ij \in Pairs(N) :
             \E dx, dy \in {Q(n, d) : n \in -8..8, d \in 1..2} :
                /\ IsDifference(dx, X[ij[2] + 1], X[ij[1] + 1])
                /\ IsDifference(dy, Y[ij[2] + 1], Y[ij[1] + 1])
                /\ IsSumOfSquares(out[PairIndex(N, ij[1], ij[2]) + 1], dx, dy)
        /\ (X = <<QInt(0), QInt(3)>> /\ Y = <<QInt(0), QInt(4)>>) => out = <<QInt(25)>>

\* three turbines, all three separations different
C9_Witness ==
    /\ spacing.params.turbineX = <<QInt(0), QInt(3), QInt(3)>>
    /\ spacing.params.turbineY = <<QInt(0), QInt(4), QInt(0)>>
    /\ spacing.unknowns.wtSeparationSquared = <<QInt(25), QInt(9), QInt(16)>>

\* row k of a Jacobian block has nonzero entries exactly at the columns in cols
NonzeroColumns(row) == {c \in 1..Len(row) : row[c] # QInt(0)}

\* the row of pair (i, j) in a block of the Jacobian for the coordinates v:
\* -2*delta at column i, +2*delta at column j, delta = v[j] - v[i]
PairRowValues(row, v, i, j) ==
    \E delta \in {Q(n, d) : n \in -8..8, d \in 1..2} :
        /\ IsDifference(delta, v[j + 1], v[i + 1])
        /\ row[i + 1] = Q(-2 * delta.n, delta.d)
        /\ row[j + 1] = Q(2 * delta.n, delta.d)

\* C10 as stated: every pair's row has exactly two nonzero entries in each of
\* the turbineX and turbineY blocks, at columns i and j, -2*delta and +2*delta
C10_ExactlyTwoNonzero ==
    spacing.ret.returned =>
        LET N == spacing.nTurbines
            JX == spacing.ret.J[<<"wtSeparationSquared", "turbineX">>]
            JY == spacing.ret.J[<<"wtSeparationSquared", "turbineY">>]
        IN  \A ij \in Pairs(N) :
               LET k == PairIndex(N, ij[1], ij[2]) + 1
               IN  /\ NonzeroColumns(JX[k]) = {ij[1] + 1, ij[2] + 1}
                   /\ NonzeroColumns(JY[k]) = {ij[1] + 1, ij[2] + 1}
                   /\ PairRowValues(JX[k], spacing.params.turbineX, ij[1], ij[2])
                   /\ PairRowValues(JY[k], spacing.params.turbineY, ij[1], ij[2])

\* C10 amended: every pair's row holds -2*delta at column i and +2*delta at
\* column j and zero in every other column, in each block; the two entries
\* are nonzero exactly when delta is not zero
C10_PairRows ==
    spacing.ret.returned =>
        LET N == spacing.nTurbines
            JX == spacing.ret.J[<<"wtSeparationSquared", "turbineX">>]
            JY == spacing.ret.J[<<"wtSeparationSquared", "turbineY">>]
            X == spacing.params.turbineX
            Y == spacing.params.turbineY
        IN  /\ Len(JX) = nPairs(N) /\ Len(JY) = nPairs(N)
            /\ \A ij \in Pairs(N) :
                 LET k == PairIndex(N, ij[1], ij[2]) + 1
                     i == ij[1] + 1
                     j == ij[2] + 1
                 IN  /\ Len(JX[k]) = N /\ Len(JY[k]) = N
                     /\ NonzeroColumns(JX[k]) \subseteq {i, j}
                     /\ NonzeroColumns(JY[k]) \subseteq {i, j}
                     /\ PairRowValues(JX[k], X, ij[1], ij[2])
                     /\ PairRowValues(JY[k], Y, ij[1], ij[2])
                     /\ (X[i] # X[j]) <=> (NonzeroColumns(JX[k]) = {i, j})
                     /\ (Y[i] # Y[j]) <=> (NonzeroColumns(JY[k]) = {i, j})

\* a Jacobian of three turbines with a pair that shares its x coordinate
C10_Witness ==
    /\ spacing.ret.returned
    /\ spacing.params.turbineX = <<QInt(0), QInt(3), QInt(3)>>
    /\ spacing.params.turbineY = <<QInt(0), QInt(4), QInt(0)>>
    /\ spacing.ret.J[<<"wtSeparationSquared", "turbineX">>] =
          << <<QInt(-6), QInt(6), QInt(0)>>,
             <<QInt(-6), QInt(0), QInt(6)>>,
             <<QInt(0), QInt(0), QInt(0)>> >>
    /\ spacing.ret.J[<<"wtSeparationSquared", "turbineY">>] =
          << <<QInt(-8), QInt(8), QInt(0)>>,
             <<QInt(0), QInt(0), QInt(0)>>,
             <<QInt(0), QInt(8), QInt(-8)>> >>

\* C6: constructing BoundaryComp with nVertices < 1 raises the
\* invalid-configuration ValueError, and a component whose type is neither
\* 'polygon' nor 'circle' never comes to exist or return a result
C6_InvalidBoundaryType ==
    /\ (boundary.nVertices < 1 /\ boundary # BoundaryComp_none) =>
          (boundary.err = "ValueError" /\ ~boundary.constructed)
    /\ boundary.constructed => boundary.type \in {"polygon", "circle"}

\* C7: a call of calculate_distance with vertex and normal lists of
\* different lengths fails and returns no distance array
C7_LengthMismatchFatal ==
    (distance.called /\ Len(distance.vertices) # Len(distance.unit_normals)) =>
        distance.result.raised # "none"

\* x = y*z for exact fractions, by cross-multiplication
IsProduct(x, y, z) == x.d # 0 /\ x.n * y.d * z.d = x.d * y.n * z.n

\* the yaw factors of the inputs used: cos(0) = 1, and with pP = 3
\* cos(60 deg)^(pP/3) = 1/2, cos(60 deg)^pP = 1/8, cos(60 deg)^2 = 1/4
AxialFactor(yaw) == IF yaw = QInt(0) THEN QInt(1) ELSE [n |-> 1, d |-> 2]
CpYawFactor(yaw) == IF yaw = QInt(0) THEN QInt(1) ELSE [n |-> 1, d |-> 8]
CtYawFactor(yaw) == IF yaw = QInt(0) THEN QInt(1) ELSE [n |-> 1, d |-> 4]

\* v*factor < w, resp. v*factor > w
AxialBelow(v, factor, w) == v.n * factor.n * w.d < w.n * v.d * factor.d
AxialAbove(v, factor, w) == v.n * factor.n * w.d > w.n * v.d * factor.d

\* C8: a turbine whose axial-equivalent wind speed is below the first or above
\* the last table wind speed makes the forward pass raise nothing and gets
\* the Cp and Ct of that end of the table, times its yaw factors
C8_ClampedToTable ==
    LET p == cpct.params
        ws == p.windSpeedToCPCT_wind_speed
        last == Len(ws)
    IN  (last > 0 /\ ~cpct.ret.returned) =>
          \A i \in 1..cpct.nTurbines :
             /\ AxialBelow(p.wtVelocity[i], AxialFactor(p.yaw[i]), ws[1]) =>
                  /\ cpct.err = "none"
                  /\ IsProduct(cpct.unknowns.Cp_out[i], p.windSpeedToCPCT_CP[1],
                               CpYawFactor(p.yaw[i]))
                  /\ IsProduct(cpct.unknowns.Ct_out[i], p.windSpeedToCPCT_CT[1],
                               CtYawFactor(p.yaw[i]))
             /\ AxialAbove(p.wtVelocity[i], AxialFactor(p.yaw[i]), ws[last]) =>
                  /\ cpct.err = "none"
                  /\ IsProduct(cpct.unknowns.Cp_out[i], p.windSpeedToCPCT_CP[last],
                               CpYawFactor(p.yaw[i]))
                  /\ IsProduct(cpct.unknowns.Ct_out[i], p.windSpeedToCPCT_CT[last],
                               CtYawFactor(p.yaw[i]))

\* two turbines, one below the table (yawed) and one above it
C8_Witness ==
    /\ cpct.nTurbines = 2
    /\ cpct.err = "none"
    /\ cpct.params.windSpeedToCPCT_wind_speed = <<QInt(4), QInt(8), QInt(12)>>
    /\ cpct.params.yaw = <<QInt(60), QInt(0)>>
    /\ cpct.params.wtVelocity = <<QInt(6), QInt(16)>>
    /\ cpct.unknowns.Cp_out = <<Q(1, 40), Q(3, 10)>>
    /\ cpct.unknowns.Ct_out = <<Q(1, 5), Q(1, 5)>>

\* C2: a forward or Jacobian evaluation leaves the input values as the caller
\* gave them; in particular 'Cp' of WindDirectionPower
C2_InputsUnchanged ==
    power.solved => power.params = power.params_given

\* the numerator and denominator of a - b
DiffN(a, b) == a.n * b.d - b.n * a.d
DiffD(a, b) == a.d * b.d

\* r^2 - ((x - xc)^2 + (y - yc)^2) over the common denominator
\* (rd*ad*bd)^2, as an integer numerator
CircleNumerator(x, y, xc, yc, r) ==
    LET an == DiffN(x, xc)
        ad == DiffD(x, xc)
        bn == DiffN(y, yc)
        bd == DiffD(y, yc)
    IN  r.n * r.n * ad * ad * bd * bd
          - an * an * r.d * r.d * bd * bd
          - bn * bn * r.d * r.d * ad * ad
CircleDenominator(x, y, xc, yc, r) ==
    r.d * r.d * DiffD(x, xc) * DiffD(x, xc) * DiffD(y, yc) * DiffD(y, yc)

\* the forward output of the circle variant in state b
CircleForward(b) ==
    LET p == b.params
        xc == p.boundary_center[1]
        yc == p.boundary_center[2]
        out == b.unknowns.boundaryDistances
    IN  /\ b.err = "none"
        /\ Len(out) = b.nTurbines
        /\ \A i \in 1..b.nTurbines :
             LET num == CircleNumerator(p.turbineX[i], p.turbineY[i], xc, yc, p.boundary_radius)
                 den == CircleDenominator(p.turbineX[i], p.turbineY[i], xc, yc,
                                          p.boundary_radius)
             IN  /\ out[i].d # 0
                 /\ out[i].n * den = out[i].d * num
                 /\ (out[i].n > 0) <=> (num > 0)
                 /\ (out[i].n = 0) <=> (num = 0)
                 /\ (out[i].n < 0) <=> (num < 0)
                 /\ (xc = QInt(0) /\ yc = QInt(0) /\ p.boundary_radius = QInt(10)) =>
                      /\ (p.turbineX[i] = QInt(10) /\ p.turbineY[i] = QInt(0)) =>
                            out[i] = QInt(0)
                      /\ (p.turbineX[i] = QInt(0) /\ p.turbineY[i] = QInt(0)) =>
                            out[i] = QInt(100)
                      /\ (p.turbineX[i] = QInt(20) /\ p.turbineY[i] = QInt(0)) =>
                            out[i] = QInt(-300)

\* block is the diagonal matrix with -2*(v[i] - centre) at (i, i)
CircleBlock(block, v, centre) ==
    /\ Len(block) = Len(v)
    /\ \A r \in 1..Len(v) :
         /\ Len(block[r]) = Len(v)
         /\ \A col \in 1..Len(v) :
              IF r = col
              THEN /\ block[r][col].d # 0
                   /\ block[r][col].n * DiffD(v[col], centre)
                        = block[r][col].d * (-2) * DiffN(v[col], centre)
              ELSE block[r][col] = QInt(0)

IsUnit(n) ==
    n[1].n * n[1].n * n[2].d * n[2].d + n[2].n * n[2].n * n[1].d * n[1].d
       = n[1].d * n[1].d * n[2].d * n[2].d

\* dot(vertex - point, normal) as an integer numerator over DotDenominator
DotNumerator(point, vertex, normal) ==
    DiffN(vertex[1], point[1]) * normal[1].n * DiffD(vertex[2], point[2]) * normal[2].d
      + DiffN(vertex[2], point[2]) * normal[2].n * DiffD(vertex[1], point[1]) * normal[1].d
DotDenominator(point, vertex, normal) ==
    DiffD(vertex[1], point[1]) * normal[1].d * DiffD(vertex[2], point[2]) * normal[2].d

\* the forward output of the polygon variant in state b
PolygonForward(b) ==
    LET p == b.params
        out == b.unknowns.boundaryDistances
    IN  /\ Len(out) = b.nTurbines
        /\ \A i \in 1..b.nTurbines :
             /\ Len(out[i]) = b.nVertices
             /\ \A j \in 1..b.nVertices :
                  LET point == <<p.turbineX[i], p.turbineY[i]>>
                      num == DotNumerator(point, p.boundaryVertices[j], p.boundaryNormals[j])
                      den == DotDenominator(point, p.boundaryVertices[j], p.boundaryNormals[j])
                  IN  IsUnit(p.boundaryNormals[j]) =>
                         /\ out[i][j].d # 0
                         /\ out[i][j].n * den = out[i][j].d * num
                         /\ (out[i][j].n > 0) <=> (num > 0)

\* block has, at row i*nVertices + j and column i, minus component k of the
\* normal of edge j, and zero everywhere else
PolygonBlock(block, b, k) ==
    /\ Len(block) = b.nTurbines * b.nVertices
    /\ \A i \in 0..(b.nTurbines - 1), j \in 0..(b.nVertices - 1) :
         LET row == block[i * b.nVertices + j + 1]
             normal == b.params.boundaryNormals[j + 1]
         IN  /\ Len(row) = b.nTurbines
             /\ \A col \in 0..(b.nTurbines - 1) :
                  IF col = i
                  THEN IsUnit(normal) =>
                          /\ row[col + 1].d # 0
                          /\ row[col + 1].n * normal[k].d = -(row[col + 1].d * normal[k].n)
                  ELSE row[col + 1] = QInt(0)

IsRamp(out, p, n) ==
    LET an == DiffN(p.wtVelocity[n], p.cut_in_speed[n])
        ad == DiffD(p.wtVelocity[n], p.cut_in_speed[n])
        bn == DiffN(p.rated_wind_speed[n], p.cut_in_speed[n])
        bd == DiffD(p.rated_wind_speed[n], p.cut_in_speed[n])
    IN  /\ out.p = QInt(0)
        /\ out.r.d # 0
        /\ out.r.n * bn * bn * bn * ad * ad * ad * p.rated_power[n].d
             = out.r.d * p.rated_power[n].n * an * an * an * bd * bd * bd

\* the four ranges of the power curve as stated
PowerCurveCases(out, p, n) ==
    LET v == p.wtVelocity[n] IN
    /\ out.r.d # 0 /\ out.p.d # 0
    /\ QLt(v, p.cut_in_speed[n]) => out = Rat(QInt(0))
    /\ QLe(p.cut_out_speed[n], v) => out = Rat(QInt(0))
    /\ (QLe(p.cut_in_speed[n], v) /\ QLt(v, p.rated_wind_speed[n])) => IsRamp(out, p, n)
    /\ (QLe(p.rated_wind_speed[n], v) /\ QLt(v, p.cut_out_speed[n])) =>
          out = Rat(p.rated_power[n])

\* C13 as stated: in power-curve mode a speed below cut-in or at/above cut-out
\* gives 0, exactly cut-in gives 0, [cut_in, rated_speed) gives the cubic
\* ramp, [rated_speed, cut_out) gives rated_power, and nothing is divided by
\* zero when rated_speed equals cut_in
C13_PowerCurve ==
    (power.solved /\ power.params.use_power_curve_definition) =>
       \A n \in 1..power.nTurbines :
          /\ PowerCurveCases(power.unknowns.wtPower[n], power.params, n)
          /\ power.params.wtVelocity[n] = power.params.cut_in_speed[n] =>
                power.unknowns.wtPower[n] = Rat(QInt(0))

\* C13, amended: for a turbine with cut_in <= rated_speed the four ranges
\* hold and nothing is divided by zero; a speed exactly at cut-in gives 0 when
\* cut_in < rated_speed, and rated_power when rated_speed equals cut_in (the
\* speed is then in [rated_speed, cut_out))
C13_PowerCurveEnvelope ==
    (power.solved /\ power.params.use_power_curve_definition) =>
       \A n \in 1..power.nTurbines :
          LET p == power.params
              out == power.unknowns.wtPower[n]
          IN  QLe(p.cut_in_speed[n], p.rated_wind_speed[n]) =>
                /\ PowerCurveCases(out, p, n)
                /\ (p.wtVelocity[n] = p.cut_in_speed[n]
                    /\ QLt(p.cut_in_speed[n], p.rated_wind_speed[n])) =>
                      out = Rat(QInt(0))
                /\ (p.wtVelocity[n] = p.cut_in_speed[n]
                    /\ p.cut_in_speed[n] = p.rated_wind_speed[n]
                    /\ QLt(p.wtVelocity[n], p.cut_out_speed[n])) =>
                      out = Rat(p.rated_power[n])

\* rated speed equal to cut-in: one turbine at that speed, one below it
C13_Witness ==
    /\ power.solved
    /\ power.params.use_power_curve_definition
    /\ power.params.rated_wind_speed = <<QInt(3), QInt(3)>>
    /\ power.params.cut_in_speed = <<QInt(3), QInt(3)>>
    /\ power.params.wtVelocity = <<QInt(3), QInt(2)>>
    /\ power.unknowns.wtPower = <<Rat(QInt(5000)), Rat(QInt(0))>>

\* C14: in coefficient mode without use_rotor_components every turbine's
\* power lies in [0, rated_power], and is exactly 0 below its cut-in speed
C14_PowerWithinRated ==
    (power.solved /\ ~power.params.use_power_curve_definition
     /\ ~power.use_rotor_components) =>
       \A i \in 1..power.nTurbines :
          /\ RGe(power.unknowns.wtPower[i], Rat(QInt(0)))
          /\ RGe(Rat(power.params.rated_power[i]), power.unknowns.wtPower[i])
          /\ QLt(power.params.wtVelocity[i], power.params.cut_in_speed[i]) =>
                power.unknowns.wtPower[i] = Rat(QInt(0))

\* the forward pass clamped turbine i to its rated power or zeroed it below
\* cut-in: the unclamped formula value is a multiple of pi, the rated power
\* is not
ForwardFlat(i) ==
    \/ QLt(power.params.wtVelocity[i], power.params.cut_in_speed[i])
    \/ /\ ~power.use_rotor_components
       /\ power.unknowns.wtPower[i] = Rat(power.params.rated_power[i])

\* linearize set the diagonal entries of turbine i to 0.0 in all three blocks
GradientZero(i) ==
    LET wtPower == "wtPower" \o ToString(power.direction_id)
        wtVelocity == "wtVelocity" \o ToString(power.direction_id)
    IN  /\ power.ret.J[<<wtPower, wtVelocity>>][i][i] = Rat(QInt(0))
        /\ power.ret.J[<<wtPower, "Cp">>][i][i] = Rat(QInt(0))
        /\ power.ret.J[<<wtPower, "rotorDiameter">>][i][i] = Rat(QInt(0))

\* C15: in coefficient mode, for either setting of use_rotor_components, the
\* turbines whose diagonal Jacobian entries linearize zeroes are exactly the
\* turbines the forward pass clamped to rated_power or zeroed below cut-in
C15_ZeroedMatchesForward ==
    (power.ret.returned /\ ~power.params.use_power_curve_definition) =>
       \A i \in 1..power.nTurbines : GradientZero(i) <=> ForwardFlat(i)

\* C16: with yaw = 0 for all turbines the forward pass returns Ct_out = Ct_in
\* and Cp_out = Cp_in, for all four combinations of the flags and any pP.  A
\* step that returns nothing is the forward pass.
C16_ZeroYawIdentity ==
    [][(~adjust'.ret.returned
        /\ \A i \in 1..adjust.nTurbines : adjust'.params.yaw[i] = QInt(0)) =>
          /\ adjust'.unknowns.Ct_out = adjust'.params.Ct_in
          /\ adjust'.unknowns.Cp_out = adjust'.params.Cp_in]_vars

\* zero yaw, the default exponent 1.88 and no flag set
C16_Witness ==
    /\ adjust.nTurbines = 2
    /\ adjust.params.yaw = <<QInt(0), QInt(0)>>
    /\ adjust.params.pP = Q(47, 25)
    /\ ~adjust.params.CTcorrected /\ ~adjust.params.CPcorrected
    /\ adjust.params.Ct_in = <<Q(4, 5), Q(3, 5)>>
    /\ adjust.unknowns.Ct_out = <<Q(4, 5), Q(3, 5)>>
    /\ adjust.params.Cp_in = <<Q(2, 5), Q(1, 2)>>
    /\ adjust.unknowns.Cp_out = <<Q(2, 5), Q(1, 2)>>

\* an n x n block with the entries entry(i) on the diagonal, zero elsewhere
IsDiagonal(block, n, entry(_)) ==
    /\ DOMAIN block = 1..n
    /\ \A r \in 1..n :
          /\ DOMAIN block[r] = 1..n
          /\ \A col \in 1..n :
                block[r][col] = IF r = col THEN entry(col) ELSE QInt(0)
IsZeroBlock(block, n) ==
    /\ DOMAIN block = 1..n
    /\ \A r \in 1..n :
          /\ DOMAIN block[r] = 1..n
          /\ \A col \in 1..n : block[r][col] \in {QInt(0), sin_term(QInt(0), QInt(0))}

\* what a coefficient's own flag dictates for its output: the input itself
\* when corrected, the input times its yaw factor otherwise
OwnFlagForward(corrected, out, in, yaw, factor(_)) ==
    /\ DOMAIN out = DOMAIN in
    /\ \A i \in DOMAIN in :
          IF corrected THEN out[i] = in[i]
          ELSE IsProduct(out[i], factor(yaw[i]), in[i])

\* and for its three Jacobian blocks: identity, zero, zero when corrected
OwnFlagBlocks(corrected, J, out, in, other, yaw, factor(_)) ==
    LET n == Len(yaw)
        One(i) == QInt(1)
        YawFactor(i) == LET f == factor(yaw[i]) IN Q(f.n, f.d)
    IN  /\ IsZeroBlock(J[<<out, other>>], n)
        /\ IF corrected
           THEN /\ IsDiagonal(J[<<out, in>>], n, One)
                /\ IsZeroBlock(J[<<out, "yaw">>], n)
           ELSE IsDiagonal(J[<<out, in>>], n, YawFactor)

\* C17: the two flags act independently.  With CTcorrected the forward pass
\* gives Ct_out = Ct_in at any yaw and linearize gives the identity for
\* (Ct_out, Ct_in) and zero blocks for (Ct_out, yaw) and (Ct_out, Cp_in); the
\* same for CPcorrected and Cp; and each coefficient's output and blocks are
\* those its own flag dictates, whatever the other flag is.
C17_FlagsIndependent ==
    [][LET p == adjust'.params
       IN  IF ~adjust'.ret.returned
           THEN /\ OwnFlagForward(p.CTcorrected, adjust'.unknowns.Ct_out,
                                  p.Ct_in, p.yaw, CtYawFactor)
                /\ OwnFlagForward(p.CPcorrected, adjust'.unknowns.Cp_out,
                                  p.Cp_in, p.yaw, CpYawFactor)
           ELSE /\ adjust'.unknowns = adjust.unknowns
                /\ OwnFlagBlocks(p.CTcorrected, adjust'.ret.J, "Ct_out",
                                 "Ct_in", "Cp_in", p.yaw, CtYawFactor)
                /\ OwnFlagBlocks(p.CPcorrected, adjust'.ret.J, "Cp_out",
                                 "Cp_in", "Ct_in", p.yaw, CpYawFactor)]_vars

\* a yawed turbine with only CTcorrected set: Ct passes through and has the
\* identity block, Cp is reduced by cos(60 deg)^3 = 1/8
C17_Witness ==
    /\ adjust.nTurbines = 1
    /\ adjust.params.CTcorrected /\ ~adjust.params.CPcorrected
    /\ adjust.params.yaw = <<QInt(60)>>
    /\ adjust.params.Ct_in = <<Q(4, 5)>>
    /\ adjust.unknowns.Ct_out = <<Q(4, 5)>>
    /\ adjust.params.Cp_in = <<Q(2, 5)>>
    /\ adjust.unknowns.Cp_out = <<Q(1, 20)>>
    /\ adjust.ret.returned
    /\ adjust.ret.J[<<"Ct_out", "Ct_in">>] = <<<<QInt(1)>>>>
    /\ adjust.ret.J[<<"Ct_out", "yaw">>] = <<<<sin_term(QInt(0), QInt(0))>>>>
    /\ adjust.ret.J[<<"Cp_out", "Cp_in">>] = <<<<Q(1, 8)>>>>
    /\ adjust.ret.J[<<"Cp_out", "yaw">>][1][1].sin_of = QInt(60)

\* C18: wind_direction = 270 returns the positions unchanged, wind_direction
\* = 0 returns them rotated (x, y) -> (-y, x), and for every direction each
\* turbine keeps its squared distance from the origin.  A step that returns
\* nothing is the forward pass.
C18_Rotation ==
    [][~frame'.ret.returned =>
         LET p == frame'.params
             u == frame'.unknowns
         IN  \A i \in 1..frame.nTurbines :
                /\ p.wind_direction = QInt(270) =>
                      /\ u.turbineXw[i] = SurdOf(p.turbineX[i])
                      /\ u.turbineYw[i] = SurdOf(p.turbineY[i])
                /\ p.wind_direction = QInt(0) =>
                      /\ u.turbineXw[i] = SurdOf(QNeg(p.turbineY[i]))
                      /\ u.turbineYw[i] = SurdOf(p.turbineX[i])
                /\ SurdAdd(SurdMul(u.turbineXw[i], u.turbineXw[i]),
                           SurdMul(u.turbineYw[i], u.turbineYw[i]))
                     = SurdOf(QAdd(QMul(p.turbineX[i], p.turbineX[i]),
                                   QMul(p.turbineY[i], p.turbineY[i])))]_vars

\* (3, 4) seen from wind direction 0 is (-4, 3)
C18_Witness ==
    /\ frame.params.wind_direction = QInt(0)
    /\ frame.params.turbineX[1] = QInt(3)
    /\ frame.params.turbineY[1] = QInt(4)
    /\ frame.unknowns.turbineXw[1] = SurdOf(QInt(-4))
    /\ frame.unknowns.turbineYw[1] = SurdOf(QInt(3))

\* C19: in the forward pass and in linearize, the converted angle
\* 270 - direction lies in [0, 360) after the wrap step, for every
\* wind_direction
C19_AngleWrapped ==
    frame.windDirectionDeg # None =>
        /\ QLe(QInt(0), frame.windDirectionDeg)
        /\ QLt(frame.windDirectionDeg, QInt(360))

\* the entry of the dirPowers row an AEP_method prescribes for a direction
\* with power p and frequency f, by cross-multiplication; 1/0 is inf
PrescribedEntry(e, p, f, AEP_method) ==
    CASE AEP_method = "none" ->
           e.d # 0 /\ e.n * f.d = e.d * 8760 * f.n
      [] AEP_method = "log" ->
           IF p.n = 0 THEN e = [n |-> 1, d |-> 0]
           ELSE e.d # 0 /\ e.n * p.n = e.d * p.d
      [] AEP_method = "inverse" ->
           IF p.n = 0 THEN e = [n |-> -1, d |-> 0]
           ELSE e.d # 0 /\ e.n * 8760 * f.n * p.n * p.n = -(e.d * f.d * p.d * p.d)

\* C20: the Jacobian of AEP with respect to dirPowers is a single row of
\* length nDirections whose i-th entry is 8760*windFrequencies[i] for 'none',
\* 1/dirPowers[i] for 'log' and -1/(8760*windFrequencies[i]*dirPowers[i]^2)
\* for 'inverse'
C20_dAEP_dpower ==
    aep.ret.returned =>
        LET row == aep.ret.J[<<"AEP", "dirPowers">>]
        IN  /\ Len(row) = 1
            /\ Len(row[1]) = aep.nDirections
            /\ \A i \in 1..aep.nDirections :
                  PrescribedEntry(row[1][i], aep.params.dirPowers[i],
                                  aep.params.windFrequencies[i], aep.params.AEP_method)

\* 'inverse' with powers 100 and 200 at frequency 1/2
C20_Witness ==
    /\ aep.ret.returned
    /\ aep.params.AEP_method = "inverse"
    /\ aep.params.dirPowers = <<QInt(100), QInt(200)>>
    /\ aep.params.windFrequencies = <<Q(1, 2), Q(1, 2)>>
    /\ aep.ret.J[<<"AEP", "dirPowers">>] = <<<<Q(-1, 43800000), Q(-1, 175200000)>>>>

\* a vector of length n that is 1 at index i (counted from 0) and 0 elsewhere
OneHot(v, n, i) ==
    /\ DOMAIN v = 1..n
    /\ \A k \in 1..n : v[k] = IF k = i + 1 THEN QInt(1) ELSE QInt(0)

\* C21: when linearize returns, MUX's entry for ('Array', input_i) is a vector
\* of length n that is 1 at index i and 0 elsewhere, and DeMUX's entry for
\* (output_i, 'Array') is a 1 x n row that is 1 at index i and 0 elsewhere,
\* for every i in 0..n-1
C21_OneHot ==
    /\ mux.ret.returned =>
          \A i \in 0..(mux.nElements - 1) :
             OneHot(mux.ret.J[<<"Array", input_name(i)>>], mux.nElements, i)
    /\ demux.ret.returned =>
          \A i \in 0..(demux.nElements - 1) :
             /\ Len(demux.ret.J[<<output_name(i), "Array">>]) = 1
             /\ OneHot(demux.ret.J[<<output_name(i), "Array">>][1], demux.nElements, i)

\* both Jacobians returned for three elements
C21_Witness ==
    /\ mux.nElements = 3 /\ mux.ret.returned
    /\ mux.ret.J[<<"Array", "input0">>] = <<QInt(1), QInt(0), QInt(0)>>
    /\ mux.ret.J[<<"Array", "input2">>] = <<QInt(0), QInt(0), QInt(1)>>
    /\ demux.nElements = 3 /\ demux.ret.returned
    /\ demux.ret.J[<<"output1", "Array">>] = <<<<QInt(0), QInt(1), QInt(0)>>>>

\* C22: every forward call adds exactly one to the objective-call counter of
\* the component's rank and leaves the sensitivity counter alone, and every
\* Jacobian call adds exactly one to the sensitivity-call counter and leaves
\* the objective counter alone, so that after any sequence of calls the two
\* counters have grown by the numbers of forward and of Jacobian calls made.
\* Every step is one call; one that returns a Jacobian is a Jacobian call and
\* one that returns nothing without an error is a forward call.
C22_CountersCountCalls ==
    [][LET obj == config.obj_func_calls_array[aep.rank]
           sens == config.sens_func_calls_array[aep.rank]
           obj_after == config'.obj_func_calls_array[aep.rank]
           sens_after == config'.sens_func_calls_array[aep.rank]
       IN  /\ (obj_after - obj) + (sens_after - sens) = 1
           /\ aep'.ret.returned => (sens_after = sens + 1 /\ obj_after = obj)
           /\ (~aep'.ret.returned /\ aep'.err = "none") =>
                 (obj_after = obj + 1 /\ sens_after = sens)]_vars

\* C23: the Jacobian a linearize call returns is the one of the inputs passed
\* to that call, that is the one linearize returns right after a forward pass
\* on those inputs, whatever earlier calls used and whether or not a forward
\* call came before; in particular the call does return one
C23_JacobianOfCurrentInputs ==
    /\ smooth.err # "AttributeError"
    /\ smooth.ret.returned =>
          smooth.ret.J =
             CPCT_Smooth_lin(CPCT_Smooth_solve(smooth, smooth.params), smooth.params).ret.J

\* C24: the smooth variant, like the table variant, looks the curve up at
\* the axial-equivalent wind speed v*cos(yaw)^(pP/3) clamped into the table's
\* range, the speed the table variant uses for the same inputs, and scales Cp
\* by cos(yaw)^pP and Ct by cos(yaw)^2
C24_SameQuerySpeed ==
    smooth.interpolated_at # <<>> =>
        LET p == smooth.params IN
        \A i \in 1..smooth.nTurbines :
            LET v_ax == clamp_to_table(axial_wind_speed(p.yaw[i], p.pP, p.wtVelocity[i]),
                                       p.windSpeedToCPCT_wind_speed)
            IN  (smooth.ret = NoReturn /\ smooth.err = "none") =>
                  /\ smooth.interpolated_at[i] = v_ax
                  /\ smooth.unknowns.Cp_out[i] = Cp_at(p, p.yaw[i], p.wtVelocity[i])
                  /\ smooth.unknowns.Ct_out[i] = Ct_at(p, p.yaw[i], p.wtVelocity[i])

\* the sum of the first i entries of a vector of numbers r + p*pi
RECURSIVE SumOfFirst(_, _)
SumOfFirst(s, i) == IF i = 0 THEN Rat(QInt(0)) ELSE RAdd(SumOfFirst(s, i - 1), s[i])

\* row is the 1 x n row of the sums over the rows of the n x n block
IsColumnSum(row, block, n) ==
    /\ Len(row) = 1
    /\ Len(row[1]) = n
    /\ \A col \in 1..n :
          row[1][col] = SumOfFirst([r \in 1..n |-> block[r][col]], n)

\* C25: in both modes dir_power is the sum of the wtPower entries written to
\* the output, and each dir_power Jacobian row (with respect to wtVelocity,
\* Cp and rotorDiameter) is 1 x nTurbines and equals the column-wise sum of
\* the corresponding wtPower block
C25_DirectionPowerIsSum ==
    LET n == power.nTurbines
        wtPower == "wtPower" \o ToString(power.direction_id)
        dir_power == "dir_power" \o ToString(power.direction_id)
        wtVelocity == "wtVelocity" \o ToString(power.direction_id)
    IN  /\ power.solved =>
              power.unknowns.dir_power = SumOfFirst(power.unknowns.wtPower, n)
        /\ power.ret.returned =>
              \A input \in {wtVelocity, "Cp", "rotorDiameter"} :
                 IsColumnSum(power.ret.J[<<dir_power, input>>],
                             power.ret.J[<<wtPower, input>>], n)

\* two turbines in coefficient mode, both with a nonzero velocity derivative
C25_Witness ==
    /\ power.nTurbines = 2
    /\ power.ret.returned
    /\ ~power.params.use_power_curve_definition
    /\ power.unknowns.wtPower[1] # Rat(QInt(0))
    /\ power.unknowns.wtPower[2] # power.unknowns.wtPower[1]
    /\ power.unknowns.dir_power
         = RAdd(power.unknowns.wtPower[1], power.unknowns.wtPower[2])
    /\ power.ret.J[<<"dir_power0", "wtVelocity0">>][1][1] # Rat(QInt(0))
    /\ power.ret.J[<<"dir_power0", "wtVelocity0">>][1][2] # Rat(QInt(0))

\* the Cp the forward pass is to use: the supplied input with one Cp point,
\* the table interpolation with more points and no spline, the spline with
\* more points and a spline
StatedCp(c, given) ==
    IF c.cp_points = 1 THEN given.Cp
    ELSE IF c.cp_curve_spline = None THEN Cp_overwritten(given)
    ELSE [i \in 1..c.nTurbines |-> spline_call(c.cp_curve_spline, given.wtVelocity[i])]

\* C26: in coefficient mode, for every combination of cp_points and
\* cp_curve_spline, the forward pass and the Jacobian pass take Cp from the
\* same source.  For a turbine that is neither capped nor below cut-in the
\* power is K*(pi*D^2/4)*Cp and its derivative by D is K*(pi*D/2)*Cp with the
\* same K, so with one Cp for both passes D times the derivative is twice
\* the power; and the power is the one of the stated Cp.
C26_SameCpSource ==
    (power.ret.returned /\ ~power.params.use_power_curve_definition) =>
        LET p == power.params
            dP_dD == power.ret.J[<<"wtPower" \o ToString(power.direction_id),
                                   "rotorDiameter">>]
        IN  \A i \in 1..power.nTurbines :
               ~gradient_zeroed(power, p, i) =>
                  /\ power.unknowns.wtPower[i]
                       = Pi(coefficient_power(p, StatedCp(power, power.params_given), i))
                  /\ QMul(dP_dD[i][i].p, p.rotorDiameter[i])
                       = QMul(QInt(2), power.unknowns.wtPower[i].p)
                  /\ dP_dD[i][i].r = QInt(0)

\* sum_k dirPowers[k]*windFrequencies[k] over the first i directions
RECURSIVE WeightedPower(_, _, _)
WeightedPower(dirPowers, windFrequencies, i) ==
    IF i = 0 THEN QInt(0)
    ELSE QAdd(WeightedPower(dirPowers, windFrequencies, i - 1),
              QMul(dirPowers[i], windFrequencies[i]))

\* C27: for AEP_method 'inverse' and any number of directions, the i-th
\* Jacobian entry is the partial derivative of 1/(8760*S), S = sum_k
\* dirPowers[k]*windFrequencies[k], by dirPowers[i], which is
\* -windFrequencies[i]/(8760*S^2): entry*8760*S^2 = -windFrequencies[i]
C27_InverseDerivativeExact ==
    (aep.ret.returned /\ aep.params.AEP_method = "inverse") =>
        LET S == WeightedPower(aep.params.dirPowers, aep.params.windFrequencies,
                               aep.nDirections)
        IN  S.n # 0 =>
              \A i \in 1..aep.nDirections :
                 QMul(aep.ret.J[<<"AEP", "dirPowers">>][1][i],
                      QMul(QInt(8760), QMul(S, S)))
                   = QNeg(aep.params.windFrequencies[i])

\* block is the n x n identity times value
IsScaledIdentity(block, n, value) ==
    /\ Len(block) = n
    /\ \A r \in 1..n :
          /\ Len(block[r]) = n
          /\ \A col \in 1..n :
                block[r][col] = IF r = col THEN value ELSE SurdOf(QInt(0))

\* (x, y) mapped by the 2 x 2 matrix ((a, b), (c, d))
Mapped(a, b, c, d, x, y) ==
    <<SurdAdd(SurdMul(a, SurdOf(x)), SurdMul(b, SurdOf(y))),
      SurdAdd(SurdMul(c, SurdOf(x)), SurdMul(d, SurdOf(y)))>>

\* C28: the four Jacobian blocks are scalar multiples of the identity that
\* depend on the wind direction only (the cosine and sine of the converted
\* angle the forward pass uses), and the forward outputs are the Jacobian
\* applied to the positions, turbineXw = J(Xw,X)*turbineX + J(Xw,Y)*turbineY
\* and turbineYw = J(Yw,X)*turbineX + J(Yw,Y)*turbineY; the sample points are
\* transformed by the same map
C28_ForwardIsJacobianMap ==
    frame.ret.returned =>
        LET J == frame.ret.J
            p == frame.params
            u == frame.unknowns
            n == frame.nTurbines
            a == J[<<"turbineXw", "turbineX">>][1][1]
            b == J[<<"turbineXw", "turbineY">>][1][1]
            c == J[<<"turbineYw", "turbineX">>][1][1]
            d == J[<<"turbineYw", "turbineY">>][1][1]
        IN  /\ IsScaledIdentity(J[<<"turbineXw", "turbineX">>], n, a)
            /\ IsScaledIdentity(J[<<"turbineXw", "turbineY">>], n, b)
            /\ IsScaledIdentity(J[<<"turbineYw", "turbineX">>], n, c)
            /\ IsScaledIdentity(J[<<"turbineYw", "turbineY">>], n, d)
            /\ frame.windDirectionDeg = adjust_direction(p.wind_direction)
            /\ a = np_cos(frame.windDirectionDeg) /\ d = a
            /\ c = SurdNeg(np_sin(frame.windDirectionDeg)) /\ b = SurdNeg(c)
            /\ \A i \in 1..n :
                  <<u.turbineXw[i], u.turbineYw[i]>>
                     = Mapped(a, b, c, d, p.turbineX[i], p.turbineY[i])
            /\ \A i \in 1..frame.nSamples :
                  <<u.wsPositionXw[i], u.wsPositionYw[i]>>
                     = Mapped(a, b, c, d, p.wsPositionX[i], p.wsPositionY[i])

\* two turbines and a sample point seen from wind direction 60
C28_Witness ==
    /\ frame.ret.returned
    /\ frame.nTurbines = 2 /\ frame.nSamples = 1
    /\ frame.params.wind_direction = QInt(60)
    /\ frame.params.turbineX = <<QInt(3), QInt(-2)>>
    /\ frame.params.turbineY = <<QInt(4), QInt(5)>>
    /\ frame.params.wsPositionX = <<QInt(1)>>
    /\ frame.unknowns.turbineXw[1] = Surd(QInt(-2), Q(-3, 2))
    /\ frame.unknowns.wsPositionXw[1] # SurdOf(QInt(0))

C30_HullNormalsOutward ==
    (hull.called /\ hull.result.raised = "none") =>
        LET vertices == hull.result.vertices
            unit_normals == hull.result.unit_normals
            n == Len(vertices)
            edge(i) == <<QSub(vertices[(i % n) + 1][1], vertices[i][1]),
                         QSub(vertices[(i % n) + 1][2], vertices[i][2])>>
            face_distance ==
                calculate_distance(hull.points, vertices, unit_normals, FALSE)
        IN  /\ Len(unit_normals) = n
            /\ \A i \in 1..n :
                  /\ IsUnit(unit_normals[i])
                  /\ vdot(unit_normals[i], edge(i)).n = 0
                  /\ QSub(QMul(edge(i)[1], unit_normals[i][2]),
                          QMul(edge(i)[2], unit_normals[i][1])).n < 0
            /\ face_distance.raised = "none"
            /\ \A i \in 1..Len(hull.points) : \A j \in 1..n :
                  face_distance.value[i][j].n >= 0 /\ face_distance.value[i][j].d > 0

\* a triangle with a slanted closing face and a fourth point inside it
C30_Witness ==
    /\ hull.called /\ hull.result.raised = "none"
    /\ hull.points = << <<QInt(1), QInt(1)>>, <<QInt(0), QInt(3)>>,
                        <<QInt(0), QInt(0)>>, <<QInt(4), QInt(0)>> >>
    /\ hull.result.vertices = << <<QInt(0), QInt(3)>>, <<QInt(0), QInt(0)>>,
                                 <<QInt(4), QInt(0)>> >>
    /\ hull.result.unit_normals = << <<QInt(-1), QInt(0)>>, <<QInt(0), QInt(-1)>>,
                                     <<Q(3, 5), Q(4, 5)>> >>

====
